---- MODULE Spec2Model ----
(***************************************************************************)
(* Token and authentication core of the contacts API: the token codec,    *)
(* the token and user stores, TokensService, AuthService and the          *)
(* authenticate guard.  Every request is one atomic step (requests do not *)
(* overlap); the clock is the wall clock in whole seconds, the precision  *)
(* a JWT "exp" claim keeps.                                                *)
(***************************************************************************)
EXTENDS Integers, Sequences, FiniteSets, TLC

\* ------------------------------------------------------------------ bounds
\* The clock stops at MaxTime.  The token lifetimes come from the environment
\* (settings declares them without a default); they are kept short, in
\* seconds, so that tokens expire before the clock stops.
MaxTime == 2
JWT_ACCESS_EXPIRATION_SECONDS == 1
JWT_REFRESH_EXPIRATION_SECONDS == 2
JWT_VERIFICATION_EXPIRATION_SECONDS == 2
\* Reset tokens share the lifetime of verification tokens.
JWT_RESET_EXPIRATION_SECONDS == JWT_VERIFICATION_EXPIRATION_SECONDS

\* Lifetime of a cached user: redis.set(..., ex=3600) in the source, scaled
\* here to one second so that a key expires before the clock stops.
CACHE_EX == 1

Emails == {"seed@x", "new@x"}
Passwords == {"12345678", "88888888"}
Salts == {"salt"}

\* UserStatus, UserRole, TokenType (database/models.py)
UserStatus == {"REGISTERED", "VERIFIED", "DELETED"}
UserRole == {"USER", "ADMIN"}
TokenType == {"ACCESS", "REFRESH", "VERIFICATION", "RESET"}

VARIABLES
    users,   \* User Store: sequence of rows, the row's id is its index
    tokens,  \* Token Store: set of rows [token, type, user_id]
    cache,   \* User Cache: user id -> [hit, exp] ("user:<id>" keys of redis)
    now,     \* wall clock, whole seconds
    spent,   \* a refresh string that a successful refresh exchanged (history)
    jwts,    \* strings create_jwt returned, with the claims and ttl given to it
    contacts, \* Contact table: its rows and the last id of its sequence
    flights, \* requests in progress, store operation by store operation
    redis_manager \* the RedisSessionManager of the process and its clients

vars == <<users, tokens, cache, now, spent, jwts, contacts, flights, redis_manager>>

\* ------------------------------------------------------------ Token Codec
\* A signed string is modelled by what decoding reads from it: the claims,
\* the expiry second and whether the signature verifies under JWT_SECRET.
\* Encoding is deterministic (HS256), so equal claims and equal expiry
\* second give the equal string.
NoExp == -1
None == [user_id |-> 0, token_type |-> "NONE", exp |-> NoExp, sig |-> FALSE]
Garbage == [user_id |-> 0, token_type |-> "GARBAGE", exp |-> NoExp, sig |-> FALSE]
NoPayload == [user_id |-> 0, token_type |-> "NONE"]

\* Fault: signing without the exp claim
create_jwt_forever(data, expire_time_seconds) ==
    [user_id |-> data.user_id, token_type |-> data.token_type,
     exp |-> NoExp, sig |-> TRUE]

create_jwt(data, expire_time_seconds) ==
    [user_id |-> data.user_id,
     token_type |-> data.token_type,
     exp |-> IF expire_time_seconds # 0 THEN now + expire_time_seconds ELSE NoExp,
     sig |-> TRUE]

\* Fault: decoding that does not look at the exp claim
decode_jwt_no_expiry(token) ==
    IF token.sig
    THEN IF token.exp = NoExp
         THEN [user_id |-> token.user_id, token_type |-> token.token_type]
         ELSE [user_id |-> token.user_id, token_type |-> token.token_type,
               exp |-> token.exp]
    ELSE NoPayload

\* jwt.decode returns every claim of the string, the exp claim included
decode_jwt(token) ==
    IF token.sig /\ (token.exp = NoExp \/ token.exp > now)
    THEN IF token.exp = NoExp
         THEN [user_id |-> token.user_id, token_type |-> token.token_type]
         ELSE [user_id |-> token.user_id, token_type |-> token.token_type,
               exp |-> token.exp]
    ELSE NoPayload

\* BaseTokenPayloadModel(**payload) raises ValidationError unless both fields
\* are there and token_type is a TokenType.
PayloadValid(payload) == payload.token_type \in TokenType /\ payload.user_id > 0

\* A string whose signature does not verify (tampered or signed by another key).
Tamper(token) == [token EXCEPT !.sig = FALSE]

\* --------------------------------------------------------- Secret Hasher
hash_secret(secret, salt) == [secret |-> secret, salt |-> salt]
verify_secret(plain_secret, hashed_secret) == hashed_secret.secret = plain_secret

\* ------------------------------------------------------------- User Store
UserIds == 1..Len(users)

\* Fault: the lookup by email finds nobody
get_by_email_or_none_nobody(email) == 0

\* User.avatar_url of a user who never uploaded one
NoAvatar == "none"

\* UsersService.get_by_email_or_none: the user's id, 0 for None
get_by_email_or_none(email) ==
    IF \E i \in UserIds : users[i].email = email
    THEN CHOOSE i \in UserIds : users[i].email = email
    ELSE 0

\* UsersService.get_by_id_or_none: the user's id, 0 for None
get_by_id_or_none(id) == IF id \in UserIds THEN id ELSE 0

\* Fault: a new row that is VERIFIED from the start
UsersCreate_verified(us, body) ==
    Append(us, [email |-> body.email, password |-> body.password,
                status |-> "VERIFIED", role |-> "USER", avatar_url |-> NoAvatar])

\* UsersRepository.create: a new row with the next id and the column defaults
UsersCreate(us, body) ==
    Append(us, [email |-> body.email, password |-> body.password,
                status |-> "REGISTERED", role |-> "USER", avatar_url |-> NoAvatar])

\* Fault: the status update is lost
change_user_status_by_id_lost(us, id, status) == us

\* UsersRepository.update with a UserStatusUpdateModel
change_user_status_by_id(us, id, status) ==
    [us EXCEPT ![id].status = status]

\* Fault: the password update is lost
change_user_password_by_id_lost(us, id, password) == us

\* UsersRepository.update with a ChangePasswordModel
change_user_password_by_id(us, id, password) ==
    [us EXCEPT ![id].password = password]

\* UploadFileService.upload_file: the URL Cloudinary gives the upload (it
\* carries the version of the upload, which the service does not choose)
Avatars == {"avatar-v1", "avatar-v2"}

\* UsersRepository.update with a UserAvatarUpdateModel
change_user_avatar_by_id(us, id, avatar_url) ==
    IF id \in 1..Len(us) THEN [us EXCEPT ![id].avatar_url = avatar_url] ELSE us

\* ------------------------------------------------------------ Token Store
Row(type, user_id, token) == [token |-> token, type |-> type, user_id |-> user_id]

Strings(store) == {r.token : r \in store}

\* TokensService.get_token_or_none: is there a row with this string
InStore(store, token) == token \in Strings(store)

\* TokensService.get_token_or_none(token, token_type): the rows with this
\* string and this type (at most one, the string is unique)
get_tokens_by_string(store, token, type) ==
    {r \in store : r.token = token /\ r.type = type}

\* TokensService.get_tokens(user_id, type)
get_tokens(store, user_id, type) ==
    {r \in store : r.user_id = user_id /\ r.type = type}

\* Fault: the token column without its unique constraint
Collides_never(store, token) == FALSE

\* The unique constraint on Token.token: the insert's commit raises IntegrityError
Collides(store, token) == token \in Strings(store)

\* Fault: the insert is lost
TokensCreate_lost(store, body) == store

\* TokensRepository.create (when the commit succeeds)
TokensCreate(store, body) == store \cup {body}

\* Fault: the delete is lost
delete_token_lost(store, token) == store

\* Fault: the delete takes every row of the string's owner with it
delete_token_of_owner(store, token) ==
    {r \in store : r.user_id \notin {q.user_id : q \in {x \in store : x.token = token}}}

\* TokensService.delete_token: get_token_or_fail, then TokensRepository.delete
delete_token(store, token) == {r \in store : r.token # token}

\* Fault: the bulk delete is lost
delete_many_tokens_lost(store, strings) == store

\* TokensService.delete_many_tokens: DELETE ... WHERE token IN (tokens)
delete_many_tokens(store, strings) == {r \in store : r.token \notin strings}

\* ---------------------------------------------------------- Token Service
ExpirationSeconds(token_type) ==
    CASE token_type = "ACCESS" -> JWT_ACCESS_EXPIRATION_SECONDS
      [] token_type = "REFRESH" -> JWT_REFRESH_EXPIRATION_SECONDS
      [] token_type = "VERIFICATION" -> JWT_VERIFICATION_EXPIRATION_SECONDS
      [] OTHER -> JWT_RESET_EXPIRATION_SECONDS

\* TokensService.generate_token(token_type, payload): the signed string
generate_token(token_type, user_id) ==
    create_jwt([user_id |-> user_id, token_type |-> token_type],
               ExpirationSeconds(token_type))

\* Fault: every row carries a string signed as an ACCESS token
create_token_signed_as_access(token_type, user_id) ==
    Row(token_type, user_id, generate_token("ACCESS", user_id))

\* TokensService.create_token(token_type, payload): the row it inserts
create_token(token_type, user_id) ==
    Row(token_type, user_id, generate_token(token_type, user_id))

\* ------------------------------------------------------------ User Cache
NoCache ==
    [hit |-> FALSE, exp |-> 0,
     user |-> [id |-> 0, email |-> "", status |-> "", role |-> "", avatar_url |-> ""]]

\* UserBaseModel built from a User row: the password is left out
Snapshot(id) ==
    [id |-> id, email |-> users[id].email, status |-> users[id].status,
     role |-> users[id].role, avatar_url |-> users[id].avatar_url]

\* Fault: a guard that never finds the key
CacheHit_never(user_id) == FALSE

\* redis.get("user:<id>"): a key set with ex=... is gone once its time is up
CacheHit(user_id) ==
    user_id \in DOMAIN cache /\ cache[user_id].hit /\ cache[user_id].exp > now

\* ------------------------------------------------------------- outcomes
\* What a request comes to: the response (status code, detail, the tokens and
\* the identity it returns) and the stores as the request leaves them.
Out(code, detail, us, store, access, refresh, user_id) ==
    [code |-> code, detail |-> detail, users |-> us, tokens |-> store,
     access_token |-> access, refresh_token |-> refresh, user_id |-> user_id]

\* An HTTPException raised by the handler, nothing written before it.
Raise(code, detail) == Out(code, detail, users, tokens, None, None, 0)

\* An unexpected persistence error (IntegrityError on commit): the request
\* ends 500 with what was committed before it.
ServerError(us, store) == Out(500, "Internal Server Error", us, store, None, None, 0)

\* ------------------------------------------------------ requests in flight
\* Two requests can be in progress at once (one logical flow per request).
\* A flight is the request's handler stopped between two store operations:
\* its arguments, its local variables, its session and how it ended.
Flights == {"a", "b"}

Idle ==
    [op |-> "idle", pc |-> "done", email |-> "", password |-> "", token |-> None,
     user |-> 0, old |-> {}, new |-> None, mail |-> None, delivery |-> "none",
     session |-> "none", rolled_back |-> FALSE, raised |-> "none", code |-> 0,
     redis |-> "none"]

\* The Redis clients the process can make (Redis.from_url), and the manager
\* as constructed: _redis is None. `open` are the clients not closed yet.
\* A client that neither the manager nor a request refers to is garbage, and
\* its name is free again.
Clients == {"c1", "c2", "c3"}
NoManager == [_redis |-> "none", open |-> {}]

\* ------------------------------------------------------------------- Init
\* The users the deployment starts with (tests/conftest.py and the fixture of
\* tests/routes/test_auth_routes.py insert them directly): a verified admin
\* or a soft-deleted user.
SeedUsers ==
    { << [email |-> "seed@x", password |-> hash_secret("12345678", "salt"),
          status |-> "VERIFIED", role |-> "ADMIN", avatar_url |-> NoAvatar] >>,
      << [email |-> "seed@x", password |-> hash_secret("12345678", "salt"),
          status |-> "DELETED", role |-> "USER", avatar_url |-> NoAvatar] >> }

\* The Contact table before the first insert
NoContacts == [rows |-> {}, last_id |-> 0]

Init ==
    /\ users \in SeedUsers
    /\ tokens = {}
    /\ cache = [u \in 1..Cardinality(Emails) |-> NoCache]
    /\ now = 0
    /\ spent = {}
    /\ jwts = {}
    /\ flights = [f \in Flights |-> Idle]
    /\ redis_manager = NoManager
    /\ contacts = NoContacts

\* ------------------------------------------------------------------ clock
\* A second passes; redis drops the keys whose time is up.
Tick ==
    /\ now < MaxTime
    /\ now' = now + 1
    /\ cache' = [u \in DOMAIN cache |->
                    IF cache[u].hit /\ cache[u].exp > now + 1 THEN cache[u] ELSE NoCache]
    /\ UNCHANGED <<users, tokens, spent, jwts, contacts, flights, redis_manager>>

\* --------------------------------------------------- Authentication Guard
\* Fault: the guard without the header checks
Credentials_any(scheme, token) == TRUE

\* get_authorization_scheme_param and the two header checks
Credentials(scheme, token) == scheme = "Bearer" /\ token # None

\* Fault: the guard without the check of the payload's token_type
authenticate_any_type(scheme, token) ==
    LET payload == decode_jwt(token)
        user_id == payload.user_id
    IN  IF ~Credentials(scheme, token) THEN 0
        ELSE IF ~PayloadValid(payload) THEN 0
        ELSE IF CacheHit(user_id) THEN cache[user_id].user.id
        ELSE get_by_id_or_none(user_id)

\* authenticate: the user id it resolves, 0 when it raises credentials_exception
authenticate(scheme, token) ==
    LET payload == decode_jwt(token)
        user_id == payload.user_id
    IN  IF ~Credentials(scheme, token) THEN 0
        ELSE IF ~PayloadValid(payload) THEN 0
        ELSE IF payload.token_type # "ACCESS" THEN 0
        ELSE IF CacheHit(user_id) THEN cache[user_id].user.id
        ELSE get_by_id_or_none(user_id)

\* The cache after the guard ran: a miss that finds the user sets the key
authenticate_cache(scheme, token) ==
    LET user_id == decode_jwt(token).user_id
    IN  IF authenticate(scheme, token) # 0 /\ ~CacheHit(user_id)
        THEN [cache EXCEPT ![user_id] =
                 [hit |-> TRUE, exp |-> now + CACHE_EX, user |-> Snapshot(user_id)]]
        ELSE cache

\* GET /auth/me behind the guard
me_outcome(scheme, token) ==
    LET user_id == authenticate(scheme, token)
    IN  IF user_id = 0
        THEN Raise(401, "Could not validate credentials")
        ELSE Out(200, "", users, tokens, None, None, user_id)

me(scheme, token) ==
    /\ cache' = authenticate_cache(scheme, token)
    /\ UNCHANGED <<users, tokens, now, spent, jwts, contacts, flights, redis_manager>>

\* ------------------------------------------------------------- Role Guard
\* The UserBaseModel the guard returns: the cached one on a hit, else the one
\* built from the row
authenticate_user(scheme, token) ==
    LET user_id == decode_jwt(token).user_id
    IN  IF CacheHit(user_id) THEN cache[user_id].user ELSE Snapshot(user_id)

\* Fault: a role guard that lets every role through
role_guard_open(allowed_roles, scheme, token) ==
    IF authenticate(scheme, token) = 0
    THEN Raise(401, "Could not validate credentials")
    ELSE Out(200, "", users, tokens, None, None, authenticate_user(scheme, token).id)

\* role_guard(allowed_roles) behind authenticate
role_guard(allowed_roles, scheme, token) ==
    IF authenticate(scheme, token) = 0
    THEN Raise(401, "Could not validate credentials")
    ELSE IF authenticate_user(scheme, token).role \notin allowed_roles
    THEN Raise(403, "Forbidden: insufficient permissions")
    ELSE Out(200, "", users, tokens, None, None, authenticate_user(scheme, token).id)

\* PUT /users/avatars behind role_guard([UserRole.ADMIN]); the response
\* carries the new avatar_url
change_avatar_outcome(scheme, token, avatar_url) ==
    LET guard == role_guard({"ADMIN"}, scheme, token)
    IN  IF guard.code # 200
        THEN guard
        ELSE Out(200, avatar_url,
                 change_user_avatar_by_id(users, guard.user_id, avatar_url),
                 tokens, None, None, guard.user_id)

change_avatar(scheme, token, avatar_url) ==
    /\ users' = change_avatar_outcome(scheme, token, avatar_url).users
    /\ cache' = authenticate_cache(scheme, token)
    /\ UNCHANGED <<tokens, now, spent, jwts, contacts, flights, redis_manager>>

\* ----------------------------------------------------------- Auth Service
signup_outcome(email, password, salt) ==
    LET user == get_by_email_or_none(email)
        created_users == UsersCreate(users, [email |-> email,
                                             password |-> hash_secret(password, salt)])
        token == create_token("VERIFICATION", Len(created_users))
    IN  IF user # 0
        THEN Raise(409, "This email is already signed up")
        ELSE IF Collides(tokens, token.token)
        THEN ServerError(created_users, tokens)
        ELSE Out(200, "Registration successful", created_users,
                 TokensCreate(tokens, token), None, None, Len(created_users))

\* Fault: login that writes the access token to the store as well
login_outcome_persists_access(email, password) ==
    LET user == get_by_email_or_none(email)
        access_token == create_token("ACCESS", user)
        refresh_token == create_token("REFRESH", user)
    IN  IF user = 0
        THEN Raise(401, "Invalid email or password")
        ELSE IF users[user].status = "REGISTERED"
        THEN Raise(401, "User needs to verify their account")
        ELSE IF users[user].status = "DELETED"
        THEN Raise(401, "User account is deleted")
        ELSE IF ~verify_secret(password, users[user].password)
        THEN Raise(401, "Invalid email or password")
        ELSE IF Collides(tokens, refresh_token.token)
        THEN ServerError(users, tokens)
        ELSE Out(200, "", users,
                 TokensCreate(TokensCreate(tokens, access_token), refresh_token),
                 access_token.token, refresh_token.token, user)

\* Fault: login that does not look at the status of the account
login_outcome_any_status(email, password) ==
    LET user == get_by_email_or_none(email)
        access_token == generate_token("ACCESS", user)
        refresh_token == create_token("REFRESH", user)
    IN  IF user = 0
        THEN Raise(401, "Invalid email or password")
        ELSE IF ~verify_secret(password, users[user].password)
        THEN Raise(401, "Invalid email or password")
        ELSE IF Collides(tokens, refresh_token.token)
        THEN ServerError(users, tokens)
        ELSE Out(200, "", users, TokensCreate(tokens, refresh_token),
                 access_token, refresh_token.token, user)

login_outcome(email, password) ==
    LET user == get_by_email_or_none(email)
        access_token == generate_token("ACCESS", user)
        refresh_token == create_token("REFRESH", user)
    IN  IF user = 0
        THEN Raise(401, "Invalid email or password")
        ELSE IF users[user].status = "REGISTERED"
        THEN Raise(401, "User needs to verify their account")
        ELSE IF users[user].status = "DELETED"
        THEN Raise(401, "User account is deleted")
        ELSE IF ~verify_secret(password, users[user].password)
        THEN Raise(401, "Invalid email or password")
        ELSE IF Collides(tokens, refresh_token.token)
        THEN ServerError(users, tokens)
        ELSE Out(200, "", users, TokensCreate(tokens, refresh_token),
                 access_token, refresh_token.token, user)

refresh_outcome(refresh_token) ==
    LET payload == decode_jwt(refresh_token)
        new_access_token == generate_token("ACCESS", payload.user_id)
        new_refresh_token == create_token("REFRESH", payload.user_id)
    IN  IF refresh_token = None
        THEN Raise(401, "Invalid refresh token")
        ELSE IF ~InStore(tokens, refresh_token)
        THEN Raise(401, "Invalid refresh token")
        ELSE IF payload = NoPayload \/ ~PayloadValid(payload)
        THEN Out(401, "Invalid refresh token", users,
                 delete_token(tokens, refresh_token), None, None, 0)
        ELSE IF payload.token_type # "REFRESH"
        THEN Raise(401, "Invalid refresh token")
        ELSE IF Collides(tokens, new_refresh_token.token)
                \/ payload.user_id \notin UserIds
        THEN ServerError(users, tokens)
        ELSE Out(200, "", users,
                 delete_token(TokensCreate(tokens, new_refresh_token), refresh_token),
                 new_access_token, new_refresh_token.token, payload.user_id)

\* Fault: logout that leaves the row in the store
logout_outcome_keeps_token(refresh_token) ==
    IF refresh_token = None
    THEN Raise(401, "Invalid refresh token")
    ELSE IF get_tokens_by_string(tokens, refresh_token, "REFRESH") = {}
    THEN Raise(401, "Invalid refresh token")
    ELSE Out(204, "", users, tokens, None, None, 0)

logout_outcome(refresh_token) ==
    IF refresh_token = None
    THEN Raise(401, "Invalid refresh token")
    ELSE IF get_tokens_by_string(tokens, refresh_token, "REFRESH") = {}
    THEN Raise(401, "Invalid refresh token")
    ELSE Out(204, "", users, delete_token(tokens, refresh_token), None, None, 0)

\* Fault: verify_user that leaves the token in the store
verify_user_outcome_keeps_token(token) ==
    LET payload == decode_jwt(token)
        user == get_by_id_or_none(payload.user_id)
    IN  IF payload = NoPayload \/ ~PayloadValid(payload)
        THEN Raise(401, "Invalid token")
        ELSE IF payload.token_type # "VERIFICATION"
        THEN Raise(401, "Invalid token")
        ELSE IF ~InStore(tokens, token)
        THEN Raise(401, "Invalid token")
        ELSE IF user = 0
        THEN Raise(404, "User not found")
        ELSE IF users[user].status # "REGISTERED"
        THEN Raise(409, "User is already verified")
        ELSE Out(200, "Your email has been successfully verified",
                 change_user_status_by_id(users, payload.user_id, "VERIFIED"),
                 tokens, None, None, payload.user_id)

verify_user_outcome(token) ==
    LET payload == decode_jwt(token)
        user == get_by_id_or_none(payload.user_id)
    IN  IF payload = NoPayload \/ ~PayloadValid(payload)
        THEN Raise(401, "Invalid token")
        ELSE IF payload.token_type # "VERIFICATION"
        THEN Raise(401, "Invalid token")
        ELSE IF ~InStore(tokens, token)
        THEN Raise(401, "Invalid token")
        ELSE IF user = 0
        THEN Raise(404, "User not found")
        ELSE IF users[user].status # "REGISTERED"
        THEN Raise(409, "User is already verified")
        ELSE Out(200, "Your email has been successfully verified",
                 change_user_status_by_id(users, payload.user_id, "VERIFIED"),
                 delete_token(tokens, token), None, None, payload.user_id)

resend_verification_email_outcome(email) ==
    LET user == get_by_email_or_none(email)
        old == get_tokens(tokens, user, "VERIFICATION")
        deleted == delete_many_tokens(tokens, Strings(old))
        token == create_token("VERIFICATION", user)
    IN  IF user = 0
        THEN Raise(401, "Invalid email")
        ELSE IF users[user].status # "REGISTERED"
        THEN Raise(409, "User is already verified")
        ELSE IF Collides(deleted, token.token)
        THEN ServerError(users, deleted)
        ELSE Out(200, "Please check your email", users,
                 TokensCreate(deleted, token), None, None, user)

reset_password_outcome(token, password, salt) ==
    LET payload == decode_jwt(token)
        user == get_by_id_or_none(payload.user_id)
    IN  IF payload = NoPayload \/ ~PayloadValid(payload)
        THEN Raise(401, "Invalid token")
        ELSE IF payload.token_type # "RESET"
        THEN Raise(401, "Invalid token")
        ELSE IF ~InStore(tokens, token)
        THEN Raise(401, "Invalid token")
        ELSE IF user = 0
        THEN Raise(404, "User not found")
        ELSE Out(200, "Your password has been successfully changed",
                 change_user_password_by_id(users, user, hash_secret(password, salt)),
                 delete_token(tokens, token), None, None, user)

forgot_password_outcome(email) ==
    LET user == get_by_email_or_none(email)
        old == get_tokens(tokens, user, "RESET")
        deleted == delete_many_tokens(tokens, Strings(old))
        token == create_token("RESET", user)
    IN  IF user = 0
        THEN Out(200, "If this email exists", users, tokens, None, None, 0)
        ELSE IF users[user].status = "REGISTERED"
        THEN Raise(401, "User needs to verify their account")
        ELSE IF Collides(deleted, token.token)
        THEN ServerError(users, deleted)
        ELSE Out(200, "If this email exists", users,
                 TokensCreate(deleted, token), None, None, user)

\* A request's step: the stores become what the request leaves.
Commit(out) ==
    /\ users' = out.users
    /\ tokens' = out.tokens
    /\ UNCHANGED <<cache, now, jwts, contacts, flights, redis_manager>>

signup(email, password, salt) ==
    Commit(signup_outcome(email, password, salt)) /\ UNCHANGED spent

login(email, password) ==
    Commit(login_outcome(email, password)) /\ UNCHANGED spent

refresh(refresh_token) ==
    Commit(refresh_outcome(refresh_token)) /\ UNCHANGED spent

\* refresh, remembering one exchanged string (any one of them) for later
refresh_watched(refresh_token) ==
    /\ Commit(refresh_outcome(refresh_token))
    /\ \/ UNCHANGED spent
       \/ /\ refresh_outcome(refresh_token).code = 200
          /\ spent = {}
          /\ spent' = {refresh_token}

logout(refresh_token) ==
    Commit(logout_outcome(refresh_token)) /\ UNCHANGED spent

\* POST /auth/logout as routed: dependencies=[Depends(authenticate)], whose
\* user the handler does not receive, then AuthService.logout of the cookie
logout_route_outcome(scheme, token, refresh_token) ==
    IF authenticate(scheme, token) = 0
    THEN Raise(401, "Could not validate credentials")
    ELSE logout_outcome(refresh_token)

logout_route(scheme, token, refresh_token) ==
    /\ tokens' = logout_route_outcome(scheme, token, refresh_token).tokens
    /\ cache' = authenticate_cache(scheme, token)
    /\ UNCHANGED <<users, now, spent, jwts, contacts, flights, redis_manager>>

verify_user(token) ==
    Commit(verify_user_outcome(token)) /\ UNCHANGED spent

resend_verification_email(email) ==
    Commit(resend_verification_email_outcome(email)) /\ UNCHANGED spent

reset_password(token, password, salt) ==
    Commit(reset_password_outcome(token, password, salt)) /\ UNCHANGED spent

forgot_password(email) ==
    Commit(forgot_password_outcome(email)) /\ UNCHANGED spent

\* --------------------------------------------------------------- requests
\* What a client can present: a string that verifies under JWT_SECRET (the
\* claims the service signs for a user, at any second up to now), a stored
\* string of any type, a tampered copy of a stored string, or something that
\* is no token at all; a cookie can also be missing.
Signed(type) ==
    {[user_id |-> u, token_type |-> type, exp |-> t + ExpirationSeconds(type), sig |-> TRUE] :
        u \in UserIds, t \in 0..now}
Forged(type) == {Tamper(t) : t \in Signed(type) \cap Strings(tokens)} \cup {Garbage}
Presentable(type) == Signed(type) \cup Strings(tokens) \cup Forged(type)
Schemes == {"Bearer", "Basic"}

\* What a client holds to send to the Auth Service: the stored strings (of
\* any type), an exchanged refresh string, a tampered copy, no token at all.
Held(type) == Strings(tokens) \cup spent \cup Forged(type)

\* The requests of the Auth Service other than refresh, one at a time
Requests ==
    \/ Tick
    \/ \E e \in Emails, p \in Passwords, s \in Salts : signup(e, p, s)
    \/ \E e \in Emails, p \in Passwords : login(e, p)
    \/ \E t \in Held("REFRESH") \cup {None} : logout(t)
    \/ \E t \in Held("VERIFICATION") : verify_user(t)
    \/ \E e \in Emails : resend_verification_email(e)
    \/ \E t \in Held("RESET"), p \in Passwords, s \in Salts : reset_password(t, p, s)
    \/ \E e \in Emails : forgot_password(e)

Next ==
    \/ Requests
    \/ \E t \in Held("REFRESH") \cup {None} : refresh(t)

Spec == Init /\ [][Next]_vars

\* The same, keeping the history of one exchanged refresh string
NextWatched ==
    \/ Requests
    \/ \E t \in Held("REFRESH") \cup {None} : refresh_watched(t)

SpecWatched == Init /\ [][NextWatched]_vars

\* The same as Spec, with requests to a guarded route
NextGuard ==
    \/ Next
    \/ \E s \in Schemes, t \in Signed("ACCESS") \cup {Garbage, None} : me(s, t)

SpecGuard == Init /\ [][NextGuard]_vars

\* The requests that lead to the avatar route: an account is signed up,
\* verified and logged in, and its access string is sent to PUT /users/avatars
\* or GET /auth/me.
NextUsers ==
    \/ Tick
    \/ \E e \in Emails, p \in Passwords, s \in Salts : signup(e, p, s)
    \/ \E t \in Held("VERIFICATION") : verify_user(t)
    \/ \E e \in Emails, p \in Passwords : login(e, p)
    \/ \E s \in Schemes, t \in Signed("ACCESS") \cup {Garbage, None} : me(s, t)
    \/ \E s \in Schemes, t \in Signed("ACCESS") \cup {Garbage, None}, a \in Avatars :
          change_avatar(s, t, a)
    \/ \E s \in Schemes, t \in Signed("ACCESS") \cup {Garbage, None},
          r \in Held("REFRESH") \cup {None} : logout_route(s, t, r)

SpecUsers == Init /\ [][NextUsers]_vars

\* The same as Spec, from a store that may already hold one verification or
\* reset token of the seeded user, created through TokensService.create_token
\* as the fixtures of tests/routes/test_auth_routes.py do.
SeedTokens == {{}} \cup {{create_token(ty, 1)} : ty \in {"VERIFICATION", "RESET"}}

InitSeeded ==
    /\ now = 0
    /\ users \in SeedUsers
    /\ tokens \in SeedTokens
    /\ cache = [u \in 1..Cardinality(Emails) |-> NoCache]
    /\ spent = {}
    /\ jwts = {}
    /\ flights = [f \in Flights |-> Idle]
    /\ redis_manager = NoManager
    /\ contacts = NoContacts

SpecSeeded == InitSeeded /\ [][Next]_vars

\* The requests that consume a token, from the seeded store: login and
\* forgot_password issue refresh and reset strings, and refresh, verify,
\* reset_password and the guard are sent what the client holds while the
\* strings run out.
NextConsumers ==
    \/ Tick
    \/ \E e \in Emails, p \in Passwords : login(e, p)
    \/ \E e \in Emails : forgot_password(e)
    \/ \E t \in Held("REFRESH") \cup {None} : refresh(t)
    \/ \E t \in Held("VERIFICATION") : verify_user(t)
    \/ \E t \in Held("RESET"), p \in Passwords, s \in Salts : reset_password(t, p, s)
    \/ \E s \in Schemes, t \in Signed("ACCESS") \cup {Garbage, None} : me(s, t)

SpecConsumers == InitSeeded /\ [][NextConsumers]_vars

\* ------------------------------------------------------------ Token Codec
\* The codec on its own: strings are signed for some claims and ttl (0 for
\* no ttl) at some second, and decoded in every later state.
MaxTtl == 2
MaxJwts == 2
CodecClaims ==
    {[user_id |-> u, token_type |-> ty] : u \in 1..2, ty \in {"ACCESS", "REFRESH"}}

Encode(data, ttl) ==
    /\ Cardinality(jwts) < MaxJwts
    /\ jwts' = jwts \cup {[claims |-> data, ttl |-> ttl, at |-> now,
                           token |-> create_jwt(data, ttl)]}
    /\ UNCHANGED <<users, tokens, cache, now, spent, contacts, flights, redis_manager>>

NextCodec ==
    \/ Tick
    \/ \E data \in CodecClaims, ttl \in 0..MaxTtl : Encode(data, ttl)

SpecCodec == Init /\ [][NextCodec]_vars

\* -------------------------------------------------------- Contacts Service
\* Contact ids come from a Postgres serial column: the table keeps the last
\* id it gave, and a deleted id is not given again.
MaxContacts == 2

\* The calendar, scaled: a year of YearLen days; a birthday and today are
\* days of the year. 29 February is not among them.
YearLen == 3
Days == 1..YearLen

\* ContactCreateModel: every field of a contact. Text columns are sequences
\* of characters, so that LIKE can look into them.
ContactBodies ==
    {[first_name |-> <<"a">>, last_name |-> <<"b">>, email |-> <<"a", "b">>,
      phone |-> "1", birthday |-> 1],
     [first_name |-> <<"b">>, last_name |-> <<"b">>, email |-> <<"b", "a">>,
      phone |-> "1", birthday |-> YearLen]}

\* ContactUpdateModel: the fields the client set (model_dump(exclude_unset=True))
ContactUpdates ==
    {[phone |-> "2"], [first_name |-> <<"a", "b">>, birthday |-> 2]}

\* The query parameters of GET /contacts: None when the parameter is left out
NoSearch == <<"none">>
Searches == {<<"a">>, <<"b", "a">>, <<"_", "b">>, <<"%">>, <<>>}
NoWithin == -1
Withins == 0..1

\* SQL LIKE: % stands for any run of characters, _ for any one character
RECURSIVE Like(_, _)
Like(text, pattern) ==
    IF pattern = <<>> THEN text = <<>>
    ELSE IF Head(pattern) = "%"
    THEN Like(text, Tail(pattern)) \/ (text # <<>> /\ Like(Tail(text), pattern))
    ELSE /\ text # <<>>
         /\ Head(pattern) = "_" \/ Head(pattern) = Head(text)
         /\ Like(Tail(text), Tail(pattern))

\* Contact.<column>.like(f"%{search}%")
LikeSearch(text, search) == Like(text, <<"%">> \o search \o <<"%">>)

\* order_by("id") of a result set
RECURSIVE OrderById(_)
OrderById(rows) ==
    IF rows = {} THEN <<>>
    ELSE LET first == CHOOSE r \in rows : \A q \in rows : r.id <= q.id
         IN  <<first>> \o OrderById(rows \ {first})

\* get_all over a given table: the owner filter, the search filter over
\* first_name, last_name and email, and the birthday filter, where the
\* birthday is put into the current year and must lie between today and
\* today + birthdays_within (a date of next year when it passes the year's end)
ContactsGetAll(rows, user, search, birthdays_within, today) ==
    OrderById({r \in rows :
        /\ r.user_id = user
        /\ search # NoSearch =>
              \/ LikeSearch(r.first_name, search)
              \/ LikeSearch(r.last_name, search)
              \/ LikeSearch(r.email, search)
        /\ birthdays_within # NoWithin =>
              today <= r.birthday /\ r.birthday <= today + birthdays_within})

\* Fault: a listing without the owner filter
get_all_of_everyone(user, search, birthdays_within, today) ==
    OrderById({r \in contacts.rows :
        /\ search # NoSearch =>
              \/ LikeSearch(r.first_name, search)
              \/ LikeSearch(r.last_name, search)
              \/ LikeSearch(r.email, search)
        /\ birthdays_within # NoWithin =>
              today <= r.birthday /\ r.birthday <= today + birthdays_within})

\* ContactsService.get_all
get_all(user, search, birthdays_within, today) ==
    ContactsGetAll(contacts.rows, user, search, birthdays_within, today)

\* What a contacts request comes to: the response and the table as it leaves it
ContactsOut(code, detail, result, table) ==
    [code |-> code, detail |-> detail, result |-> result, contacts |-> table]

NoContact == [id |-> 0, user_id |-> 0]

\* Fault: a lookup by id alone
get_by_id_of_anyone(user, id) ==
    IF \E r \in contacts.rows : r.id = id
    THEN ContactsOut(200, "", CHOOSE r \in contacts.rows : r.id = id, contacts)
    ELSE ContactsOut(404, "Contact not found", NoContact, contacts)

\* ContactsService.get_by_id: the row of that id and that owner, else NotFound
get_by_id(user, id) ==
    IF \E r \in contacts.rows : r.id = id /\ r.user_id = user
    THEN ContactsOut(200, "", CHOOSE r \in contacts.rows : r.id = id /\ r.user_id = user,
                     contacts)
    ELSE ContactsOut(404, "Contact not found", NoContact, contacts)

\* ContactsRepository.create
ContactsCreate(table, user_id, body) ==
    [rows |-> table.rows \cup
                 {[id |-> table.last_id + 1, user_id |-> user_id,
                   first_name |-> body.first_name, last_name |-> body.last_name,
                   email |-> body.email, phone |-> body.phone,
                   birthday |-> body.birthday]},
     last_id |-> table.last_id + 1]

\* ContactsRepository.update: the row of that id gets the fields that were set
ContactsUpdate(table, contact_id, body) ==
    [table EXCEPT !.rows =
        {IF r.id = contact_id
         THEN [f \in DOMAIN r |-> IF f \in DOMAIN body THEN body[f] ELSE r[f]]
         ELSE r : r \in table.rows}]

\* ContactsRepository.delete
ContactsDelete(table, contact) ==
    [table EXCEPT !.rows = table.rows \ {contact}]

\* ContactsService.create
create_outcome(user, body) ==
    LET created == ContactsCreate(contacts, user, body)
    IN  ContactsOut(201, "", CHOOSE r \in created.rows : r.id = created.last_id, created)

\* ContactsService.update_by_id
update_by_id_outcome(user, body, id) ==
    LET found == get_by_id(user, id)
        updated == ContactsUpdate(contacts, id, body)
    IN  IF found.code # 200
        THEN found
        ELSE ContactsOut(200, "", CHOOSE r \in updated.rows : r.id = id, updated)

\* ContactsService.delete_by_id
delete_by_id_outcome(user, id) ==
    LET found == get_by_id(user, id)
    IN  IF found.code # 200
        THEN found
        ELSE ContactsOut(204, "", found.result, ContactsDelete(contacts, found.result))

create(user, body) ==
    /\ contacts.last_id < MaxContacts
    /\ contacts' = create_outcome(user, body).contacts
    /\ UNCHANGED <<users, tokens, cache, now, spent, jwts, flights, redis_manager>>

update_by_id(user, body, id) ==
    /\ contacts' = update_by_id_outcome(user, body, id).contacts
    /\ UNCHANGED <<users, tokens, cache, now, spent, jwts, flights, redis_manager>>

delete_by_id(user, id) ==
    /\ contacts' = delete_by_id_outcome(user, id).contacts
    /\ UNCHANGED <<users, tokens, cache, now, spent, jwts, flights, redis_manager>>

\* The ids a client may ask for: every id given so far and one never given
ContactIds == 1..(MaxContacts + 1)

\* The users of tests/routes/test_contacts_routes.py: the seeded admin and
\* another user, inserted directly
AnotherUser ==
    [email |-> "new@x", password |-> hash_secret("12345678", "salt"),
     status |-> "REGISTERED", role |-> "USER", avatar_url |-> NoAvatar]

InitContacts ==
    /\ users = << [email |-> "seed@x", password |-> hash_secret("12345678", "salt"),
                   status |-> "VERIFIED", role |-> "ADMIN", avatar_url |-> NoAvatar],
                  AnotherUser >>
    /\ tokens = {}
    /\ cache = [u \in 1..Cardinality(Emails) |-> NoCache]
    /\ now = 0
    /\ spent = {}
    /\ jwts = {}
    /\ flights = [f \in Flights |-> Idle]
    /\ redis_manager = NoManager
    /\ contacts = NoContacts

NextContacts ==
    \/ \E u \in UserIds, body \in ContactBodies : create(u, body)
    \/ \E u \in UserIds, body \in ContactUpdates, id \in ContactIds : update_by_id(u, body, id)
    \/ \E u \in UserIds, id \in ContactIds : delete_by_id(u, id)

SpecContacts == InitContacts /\ [][NextContacts]_vars

\* ====================================================== requests in flight
\* The handlers once more, one store operation per step, so that two
\* requests interleave where the event loop can switch between them (every
\* await of a repository call). Every repository call commits on its own.
Fly(f, fl) == flights' = [flights EXCEPT ![f] = fl]
At(f, op, pc) == flights[f].op = op /\ flights[f].pc = pc

\* raise HTTP...Exception: the handler is left with that status code
RaiseHttp(fl, code) == [fl EXCEPT !.raised = "http", !.code = code, !.pc = "exit"]

\* A commit raised IntegrityError (a SQLAlchemyError) and nothing catches it
RaiseSql(fl) == [fl EXCEPT !.raised = "sql", !.code = 500, !.pc = "exit"]

\* The handler returned
Return(fl, code) == [fl EXCEPT !.code = code, !.pc = "exit"]

\* The request is over (or the slot was never used): the session has been
\* left and no background task is waiting
Over(fl) == fl.pc = "done" /\ fl.delivery # "queued"

\* get_db: the request enters sessionmanager.session() and its handler
\* starts. The second slot is only taken while the first is in progress.
begin(f, op, pc, email, password, token) ==
    /\ Over(flights[f])
    /\ f = "b" => ~Over(flights["a"])
    /\ Fly(f, [Idle EXCEPT !.op = op, !.pc = pc, !.email = email,
                           !.password = password, !.token = token,
                           !.session = "open"])
    /\ UNCHANGED <<users, tokens, cache, now, spent, jwts, contacts, redis_manager>>

\* The request is over: its local variables are gone, what is left is the
\* request, its response and what became of its session; of a refresh, the
\* string it had committed (the refresh_token of its response, if it answered)
Ended(fl) ==
    [Idle EXCEPT !.op = fl.op, !.email = fl.email, !.token = fl.token,
                 !.session = fl.session, !.rolled_back = fl.rolled_back,
                 !.raised = fl.raised, !.code = fl.code,
                 !.mail = fl.mail, !.delivery = fl.delivery,
                 !.new = IF fl.op = "refresh" THEN fl.new ELSE None]

\* Fault: a session that is left open when the scope failed in the database
session_exit_unclosed(fl) ==
    IF fl.raised = "sql"
    THEN Ended([fl EXCEPT !.rolled_back = TRUE])
    ELSE Ended([fl EXCEPT !.session = "closed"])

\* DatabaseSessionManager.session after the yield: except SQLAlchemyError
\* -> await session.rollback(), raise; finally -> await session.close()
session_exit(fl) ==
    IF fl.raised = "sql" /\ ~fl.rolled_back
    THEN [fl EXCEPT !.rolled_back = TRUE]
    ELSE Ended([fl EXCEPT !.session = "closed"])

flight_exit(f) ==
    /\ flights[f].pc = "exit"
    /\ Fly(f, session_exit(flights[f]))
    /\ UNCHANGED <<users, tokens, cache, now, spent, jwts, contacts, redis_manager>>

\* Fault: the flight goes on without its insert
flight_create_token_lost(f, type, pc) ==
    LET fl == flights[f]
        token == create_token(type, fl.user)
    IN  /\ UNCHANGED tokens
        /\ Fly(f, [fl EXCEPT !.new = token.token, !.pc = pc])

\* TokensService.create_token in a flight: the string is signed at the
\* second of the insert, and the insert commits
flight_create_token(f, type, pc) ==
    LET fl == flights[f]
        token == create_token(type, fl.user)
    IN  IF Collides(tokens, token.token)
        THEN Fly(f, RaiseSql(fl)) /\ UNCHANGED tokens
        ELSE /\ tokens' = TokensCreate(tokens, token)
             /\ Fly(f, [fl EXCEPT !.new = token.token, !.pc = pc])

\* MailService.send_mail: background_tasks.add_task(self.fm.send_message, ...)
\* on the BackgroundTasks of this request; the mail carries the token string
add_task(fl, token) == [fl EXCEPT !.mail = token, !.delivery = "queued"]

\* send_verification_mail / send_reset_password_mail is the handler's last
\* statement: the mail is queued and the handler returns
flight_send_mail(f) ==
    LET fl == flights[f]
    IN  Fly(f, Return(add_task(fl, fl.new), 200))

\* ---- AuthService.signup
signup_get_by_email_or_none(f) ==
    LET fl == flights[f]
    IN  /\ At(f, "signup", "get_by_email_or_none")
        /\ Fly(f, IF get_by_email_or_none(fl.email) # 0
                  THEN RaiseHttp(fl, 409)
                  ELSE [fl EXCEPT !.pc = "create"])
        /\ UNCHANGED <<users, tokens, cache, now, spent, jwts, contacts, redis_manager>>

\* users_service.create: User.email is unique, so the commit of a second row
\* with the email raises IntegrityError
signup_create(f) ==
    LET fl == flights[f]
    IN  /\ At(f, "signup", "create")
        /\ \E salt \in Salts :
              IF get_by_email_or_none(fl.email) # 0
              THEN Fly(f, RaiseSql(fl)) /\ UNCHANGED users
              ELSE /\ users' = UsersCreate(users,
                                 [email |-> fl.email,
                                  password |-> hash_secret(fl.password, salt)])
                   /\ Fly(f, [fl EXCEPT !.user = Len(users) + 1, !.pc = "create_token"])
        /\ UNCHANGED <<tokens, cache, now, spent, jwts, contacts, redis_manager>>

signup_create_token(f) ==
    /\ At(f, "signup", "create_token")
    /\ flight_create_token(f, "VERIFICATION", "send_mail")
    /\ UNCHANGED <<users, cache, now, spent, jwts, contacts, redis_manager>>

signup_send_mail(f) ==
    /\ At(f, "signup", "send_mail")
    /\ flight_send_mail(f)
    /\ UNCHANGED <<users, tokens, cache, now, spent, jwts, contacts, redis_manager>>

\* ---- AuthService.resend_verification_email
resend_get_by_email_or_none(f) ==
    LET fl == flights[f]
        user == get_by_email_or_none(fl.email)
    IN  /\ At(f, "resend_verification_email", "get_by_email_or_none")
        /\ Fly(f, IF user = 0 THEN RaiseHttp(fl, 401)
                  ELSE IF users[user].status # "REGISTERED" THEN RaiseHttp(fl, 409)
                  ELSE [fl EXCEPT !.user = user, !.pc = "get_tokens"])
        /\ UNCHANGED <<users, tokens, cache, now, spent, jwts, contacts, redis_manager>>

resend_get_tokens(f) ==
    LET fl == flights[f]
    IN  /\ At(f, "resend_verification_email", "get_tokens")
        /\ Fly(f, [fl EXCEPT !.old = Strings(get_tokens(tokens, fl.user, "VERIFICATION")),
                             !.pc = "delete_many_tokens"])
        /\ UNCHANGED <<users, tokens, cache, now, spent, jwts, contacts, redis_manager>>

resend_delete_many_tokens(f) ==
    LET fl == flights[f]
    IN  /\ At(f, "resend_verification_email", "delete_many_tokens")
        /\ tokens' = delete_many_tokens(tokens, fl.old)
        /\ Fly(f, [fl EXCEPT !.pc = "create_token"])
        /\ UNCHANGED <<users, cache, now, spent, jwts, contacts, redis_manager>>

resend_create_token(f) ==
    /\ At(f, "resend_verification_email", "create_token")
    /\ flight_create_token(f, "VERIFICATION", "send_mail")
    /\ UNCHANGED <<users, cache, now, spent, jwts, contacts, redis_manager>>

resend_send_mail(f) ==
    /\ At(f, "resend_verification_email", "send_mail")
    /\ flight_send_mail(f)
    /\ UNCHANGED <<users, tokens, cache, now, spent, jwts, contacts, redis_manager>>

\* ---- AuthService.forgot_password
forgot_get_by_email_or_none(f) ==
    LET fl == flights[f]
        user == get_by_email_or_none(fl.email)
    IN  /\ At(f, "forgot_password", "get_by_email_or_none")
        /\ Fly(f, IF user = 0 THEN Return(fl, 200)
                  ELSE IF users[user].status = "REGISTERED" THEN RaiseHttp(fl, 401)
                  ELSE [fl EXCEPT !.user = user, !.pc = "get_tokens"])
        /\ UNCHANGED <<users, tokens, cache, now, spent, jwts, contacts, redis_manager>>

forgot_get_tokens(f) ==
    LET fl == flights[f]
    IN  /\ At(f, "forgot_password", "get_tokens")
        /\ Fly(f, [fl EXCEPT !.old = Strings(get_tokens(tokens, fl.user, "RESET")),
                             !.pc = "delete_many_tokens"])
        /\ UNCHANGED <<users, tokens, cache, now, spent, jwts, contacts, redis_manager>>

forgot_delete_many_tokens(f) ==
    LET fl == flights[f]
    IN  /\ At(f, "forgot_password", "delete_many_tokens")
        /\ tokens' = delete_many_tokens(tokens, fl.old)
        /\ Fly(f, [fl EXCEPT !.pc = "create_token"])
        /\ UNCHANGED <<users, cache, now, spent, jwts, contacts, redis_manager>>

forgot_create_token(f) ==
    /\ At(f, "forgot_password", "create_token")
    /\ flight_create_token(f, "RESET", "send_mail")
    /\ UNCHANGED <<users, cache, now, spent, jwts, contacts, redis_manager>>

forgot_send_mail(f) ==
    /\ At(f, "forgot_password", "send_mail")
    /\ flight_send_mail(f)
    /\ UNCHANGED <<users, tokens, cache, now, spent, jwts, contacts, redis_manager>>

\* ---- AuthService.refresh
\* decode_jwt and get_token_or_none, and the checks on what they gave
refresh_get_token_or_none(f) ==
    LET fl == flights[f]
        payload == decode_jwt(fl.token)
    IN  /\ At(f, "refresh", "get_token_or_none")
        /\ Fly(f, IF fl.token = None THEN RaiseHttp(fl, 401)
                  ELSE IF ~InStore(tokens, fl.token) THEN RaiseHttp(fl, 401)
                  ELSE IF payload = NoPayload \/ ~PayloadValid(payload)
                  THEN [fl EXCEPT !.pc = "drop_get_token_or_fail"]
                  ELSE IF payload.token_type # "REFRESH" THEN RaiseHttp(fl, 401)
                  ELSE [fl EXCEPT !.user = payload.user_id, !.pc = "create_token"])
        /\ UNCHANGED <<users, tokens, cache, now, spent, jwts, contacts, redis_manager>>

\* delete_token of a string that does not decode: get_token_or_fail ...
refresh_drop_get_token_or_fail(f) ==
    LET fl == flights[f]
    IN  /\ At(f, "refresh", "drop_get_token_or_fail")
        /\ Fly(f, IF ~InStore(tokens, fl.token) THEN RaiseHttp(fl, 404)
                  ELSE [fl EXCEPT !.pc = "drop_delete"])
        /\ UNCHANGED <<users, tokens, cache, now, spent, jwts, contacts, redis_manager>>

\* ... then TokensRepository.delete, and the handler raises 401
refresh_drop_delete(f) ==
    LET fl == flights[f]
    IN  /\ At(f, "refresh", "drop_delete")
        /\ tokens' = delete_token(tokens, fl.token)
        /\ Fly(f, RaiseHttp(fl, 401))
        /\ UNCHANGED <<users, cache, now, spent, jwts, contacts, redis_manager>>

\* generate_token(ACCESS) and create_token(REFRESH): the new row is committed
refresh_create_token(f) ==
    /\ At(f, "refresh", "create_token")
    /\ flight_create_token(f, "REFRESH", "get_token_or_fail")
    /\ UNCHANGED <<users, cache, now, spent, jwts, contacts, redis_manager>>

\* delete_token of the presented string: get_token_or_fail ...
refresh_get_token_or_fail(f) ==
    LET fl == flights[f]
    IN  /\ At(f, "refresh", "get_token_or_fail")
        /\ Fly(f, IF ~InStore(tokens, fl.token) THEN RaiseHttp(fl, 404)
                  ELSE [fl EXCEPT !.pc = "delete"])
        /\ UNCHANGED <<users, tokens, cache, now, spent, jwts, contacts, redis_manager>>

\* ... then TokensRepository.delete, and the handler returns the pair
refresh_delete(f) ==
    LET fl == flights[f]
    IN  /\ At(f, "refresh", "delete")
        /\ tokens' = delete_token(tokens, fl.token)
        /\ Fly(f, Return(fl, 200))
        /\ UNCHANGED <<users, cache, now, spent, jwts, contacts, redis_manager>>

\* ---- AuthService.verify_user
\* decode_jwt, the payload checks and get_token_or_fail (NotFound -> 401)
verify_get_token_or_fail(f) ==
    LET fl == flights[f]
        payload == decode_jwt(fl.token)
    IN  /\ At(f, "verify_user", "get_token_or_fail")
        /\ Fly(f, IF payload = NoPayload \/ ~PayloadValid(payload) THEN RaiseHttp(fl, 401)
                  ELSE IF payload.token_type # "VERIFICATION" THEN RaiseHttp(fl, 401)
                  ELSE IF ~InStore(tokens, fl.token) THEN RaiseHttp(fl, 401)
                  ELSE [fl EXCEPT !.user = payload.user_id, !.pc = "get_by_id_or_fail"])
        /\ UNCHANGED <<users, tokens, cache, now, spent, jwts, contacts, redis_manager>>

\* users_service.get_by_id_or_fail and the check of the status it read
verify_get_by_id_or_fail(f) ==
    LET fl == flights[f]
    IN  /\ At(f, "verify_user", "get_by_id_or_fail")
        /\ Fly(f, IF get_by_id_or_none(fl.user) = 0 THEN RaiseHttp(fl, 404)
                  ELSE IF users[fl.user].status # "REGISTERED" THEN RaiseHttp(fl, 409)
                  ELSE [fl EXCEPT !.pc = "change_user_status_by_id"])
        /\ UNCHANGED <<users, tokens, cache, now, spent, jwts, contacts, redis_manager>>

\* change_user_status_by_id(VERIFIED): the row is read again, set and
\* committed, whatever its status has become
verify_change_user_status_by_id(f) ==
    LET fl == flights[f]
    IN  /\ At(f, "verify_user", "change_user_status_by_id")
        /\ users' = change_user_status_by_id(users, fl.user, "VERIFIED")
        /\ Fly(f, [fl EXCEPT !.pc = "delete_get_token_or_fail"])
        /\ UNCHANGED <<tokens, cache, now, spent, jwts, contacts, redis_manager>>

\* delete_token of the consumed string: get_token_or_fail, whose NotFound
\* nothing catches here ...
verify_delete_get_token_or_fail(f) ==
    LET fl == flights[f]
    IN  /\ At(f, "verify_user", "delete_get_token_or_fail")
        /\ Fly(f, IF ~InStore(tokens, fl.token) THEN RaiseHttp(fl, 404)
                  ELSE [fl EXCEPT !.pc = "delete"])
        /\ UNCHANGED <<users, tokens, cache, now, spent, jwts, contacts, redis_manager>>

\* ... then TokensRepository.delete, and the handler returns
verify_delete(f) ==
    LET fl == flights[f]
    IN  /\ At(f, "verify_user", "delete")
        /\ tokens' = delete_token(tokens, fl.token)
        /\ Fly(f, Return(fl, 200))
        /\ UNCHANGED <<users, cache, now, spent, jwts, contacts, redis_manager>>

\* ---- RedisSessionManager, and a request to GET /auth/me behind the guard
\* RedisSessionManager.initialize: Redis.from_url when there is no client
initialize(m) ==
    IF m._redis = "none"
    THEN LET c == CHOOSE c \in Clients :
                     \A f \in Flights : flights[f].redis # c
         IN  [_redis |-> c, open |-> m.open \cup {c}]
    ELSE m

\* get_redis enters redis_manager.session(): initialize if _redis is None,
\* then yield self._redis, the client of the process, to the request
get_redis(f) ==
    LET fl == flights[f]
        m == initialize(redis_manager)
    IN  /\ At(f, "me", "get_redis")
        /\ redis_manager' = m
        /\ Fly(f, [fl EXCEPT !.redis = m._redis, !.pc = "authenticate"])
        /\ UNCHANGED <<users, tokens, cache, now, spent, jwts, contacts>>

\* authenticate with the client it was given: redis.get, and redis.set on a
\* miss (reached with a valid ACCESS payload). On a client that was closed
\* meanwhile the command either goes through on a new connection or raises,
\* which nothing catches.
me_authenticate(f) ==
    LET fl == flights[f]
    IN  /\ At(f, "me", "authenticate")
        /\ \/ /\ cache' = authenticate_cache("Bearer", fl.token)
              /\ Fly(f, [fl EXCEPT !.user = authenticate("Bearer", fl.token),
                                   !.code = IF authenticate("Bearer", fl.token) = 0
                                            THEN 401 ELSE 200,
                                   !.raised = IF authenticate("Bearer", fl.token) = 0
                                              THEN "http" ELSE "none",
                                   !.pc = "close"])
           \/ /\ fl.redis \notin redis_manager.open
              /\ decode_jwt(fl.token).token_type = "ACCESS"
              /\ Fly(f, [fl EXCEPT !.raised = "redis", !.code = 500, !.pc = "close"])
              /\ UNCHANGED cache
        /\ UNCHANGED <<users, tokens, now, spent, jwts, contacts, redis_manager>>

\* The request leaves session(): finally -> await self.close(), which closes
\* the client self._redis refers to at this moment, if there is one ...
close(f) ==
    LET fl == flights[f]
        m == redis_manager
    IN  /\ At(f, "me", "close")
        /\ redis_manager' = [m EXCEPT !.open = @ \ {m._redis}]
        /\ Fly(f, [fl EXCEPT !.pc = IF m._redis = "none" THEN "exit" ELSE "reset"])
        /\ UNCHANGED <<users, tokens, cache, now, spent, jwts, contacts>>

\* ... and, once that await is over, self._redis = None
close_reset(f) ==
    LET fl == flights[f]
    IN  /\ At(f, "me", "reset")
        /\ redis_manager' = [redis_manager EXCEPT !._redis = "none"]
        /\ Fly(f, [fl EXCEPT !.pc = "exit"])
        /\ UNCHANGED <<users, tokens, cache, now, spent, jwts, contacts>>

\* ---- the background task and the process
\* The queued task runs once the handler has returned and the response is
\* out: fm.send_message delivers the mail or raises, and there is no
\* response left to change.
send_message(f, ok) ==
    /\ flights[f].delivery = "queued"
    /\ flights[f].pc \in {"exit", "done"}
    /\ Fly(f, [flights[f] EXCEPT !.mail = None,
                                 !.delivery = IF ok THEN "sent" ELSE "failed"])
    /\ UNCHANGED <<users, tokens, cache, now, spent, jwts, contacts, redis_manager>>

\* The server process dies: its requests in progress and their queued tasks
\* are gone, the database keeps what was committed.
crash ==
    /\ \E f \in Flights : ~Over(flights[f])
    /\ flights' = [f \in Flights |-> Idle]
    /\ redis_manager' = NoManager
    /\ UNCHANGED <<users, tokens, cache, now, spent, jwts, contacts>>

SignupSteps(f) ==
    \/ signup_get_by_email_or_none(f)
    \/ signup_create(f)
    \/ signup_create_token(f)
    \/ signup_send_mail(f)

ResendSteps(f) ==
    \/ resend_get_by_email_or_none(f)
    \/ resend_get_tokens(f)
    \/ resend_delete_many_tokens(f)
    \/ resend_create_token(f)
    \/ resend_send_mail(f)

ForgotSteps(f) ==
    \/ forgot_get_by_email_or_none(f)
    \/ forgot_get_tokens(f)
    \/ forgot_delete_many_tokens(f)
    \/ forgot_create_token(f)
    \/ forgot_send_mail(f)

RefreshSteps(f) ==
    \/ refresh_get_token_or_none(f)
    \/ refresh_drop_get_token_or_fail(f)
    \/ refresh_drop_delete(f)
    \/ refresh_create_token(f)
    \/ refresh_get_token_or_fail(f)
    \/ refresh_delete(f)

\* Concurrent signup requests
NextSignups ==
    \/ Tick
    \/ \E f \in Flights, e \in Emails :
          begin(f, "signup", "get_by_email_or_none", e, "12345678", None)
    \/ \E f \in Flights : SignupSteps(f)
    \/ \E f \in Flights : flight_exit(f)
    \/ \E f \in Flights, ok \in BOOLEAN : send_message(f, ok)

SpecSignups == Init /\ [][NextSignups]_vars

\* Two resend_verification requests, or two forgot_password requests, for
\* one email at once, for the accounts that signup has made: the second
\* request comes in while the first, for the same email, is in progress.
Twin(f, op, email) ==
    f = "b" => (flights["a"].op = op /\ flights["a"].email = email)

NextReissues ==
    \/ Tick
    \/ \E e \in Emails, s \in Salts : signup(e, "12345678", s)
    \/ \E f \in Flights, e \in Emails :
          /\ Twin(f, "resend_verification_email", e)
          /\ begin(f, "resend_verification_email", "get_by_email_or_none", e, "", None)
    \/ \E f \in Flights, e \in Emails :
          /\ Twin(f, "forgot_password", e)
          /\ begin(f, "forgot_password", "get_by_email_or_none", e, "", None)
    \/ \E f \in Flights : ResendSteps(f)
    \/ \E f \in Flights : ForgotSteps(f)
    \/ \E f \in Flights : flight_exit(f)
    \/ \E f \in Flights, ok \in BOOLEAN : send_message(f, ok)

SpecReissues == Init /\ [][NextReissues]_vars

\* One request at a time that ends in a mail, and the delivery of the mail
NextMailers ==
    \/ Tick
    \/ \E e \in Emails : begin("a", "signup", "get_by_email_or_none", e, "12345678", None)
    \/ \E e \in Emails : begin("a", "resend_verification_email", "get_by_email_or_none", e, "", None)
    \/ \E e \in Emails : begin("a", "forgot_password", "get_by_email_or_none", e, "", None)
    \/ SignupSteps("a")
    \/ ResendSteps("a")
    \/ ForgotSteps("a")
    \/ flight_exit("a")
    \/ \E ok \in BOOLEAN : send_message("a", ok)

SpecMailers == Init /\ [][NextMailers]_vars

\* The stored strings a client can hold: all but those whose request has
\* not answered yet
Answered == Strings(tokens) \ {flights[f].new : f \in {g \in Flights : flights[g].pc # "done"}}

\* Logins and concurrent refresh requests, on a server that can die
NextRotation ==
    \/ Tick
    \/ \E e \in Emails, p \in Passwords : login(e, p)
    \/ \E f \in Flights, t \in Answered \cup {None} :
          begin(f, "refresh", "get_token_or_none", "", "", t)
    \/ \E f \in Flights : refresh_get_token_or_none(f)
    \/ \E f \in Flights : refresh_drop_get_token_or_fail(f)
    \/ \E f \in Flights : refresh_drop_delete(f)
    \/ \E f \in Flights : refresh_create_token(f)
    \/ \E f \in Flights : refresh_get_token_or_fail(f)
    \/ \E f \in Flights : refresh_delete(f)
    \/ \E f \in Flights : flight_exit(f)
    \/ crash

SpecRotation == Init /\ [][NextRotation]_vars

\* Signups and concurrent verify requests; the second request presents the
\* string of the first
NextVerifies ==
    \/ Tick
    \/ \E e \in Emails, s \in Salts : signup(e, "12345678", s)
    \/ \E f \in Flights, t \in Strings(tokens) \cup {None} :
          /\ f = "b" => (flights["a"].op = "verify_user" /\ flights["a"].token = t)
          /\ begin(f, "verify_user", "get_token_or_fail", "", "", t)
    \/ \E f \in Flights : verify_get_token_or_fail(f)
    \/ \E f \in Flights : verify_get_by_id_or_fail(f)
    \/ \E f \in Flights : verify_change_user_status_by_id(f)
    \/ \E f \in Flights : verify_delete_get_token_or_fail(f)
    \/ \E f \in Flights : verify_delete(f)
    \/ \E f \in Flights : flight_exit(f)

SpecVerifies == Init /\ [][NextVerifies]_vars

\* Concurrent requests to a guarded route, each with the cache client its
\* get_redis dependency gave it
NextClients ==
    \/ Tick
    \/ \E f \in Flights, t \in Signed("ACCESS") \cup {Garbage} :
          begin(f, "me", "get_redis", "", "", t)
    \/ \E f \in Flights : get_redis(f)
    \/ \E f \in Flights : me_authenticate(f)
    \/ \E f \in Flights : close(f)
    \/ \E f \in Flights : close_reset(f)
    \/ \E f \in Flights : flight_exit(f)

SpecClients == Init /\ [][NextClients]_vars

\* =================================================================== claims
\* The strings a request can carry: every string the service can have signed
\* up to now, the stored strings, forged ones, and a missing cookie.
AnyToken ==
    UNION {Presentable(ty) : ty \in TokenType} \cup {None}

\* A stored string that still decodes: in the store, signature good, unexpired
Live(token) == token \in Strings(tokens) /\ token.sig /\ token.exp > now

\* The user id of the row that holds the string
Owner(store, token) == (CHOOSE r \in store : r.token = token).user_id

\* C1: refresh tokens are single-use. A successful refresh(R1) leaves the
\* store without R1, and from then on R1 is never in the store again and
\* every refresh(R1) is answered 401 Unauthorized.
C1_RefreshSingleUse ==
    /\ \A t \in AnyToken :
          refresh_outcome(t).code = 200 => t \notin Strings(refresh_outcome(t).tokens)
    /\ \A t \in spent :
          /\ t \notin Strings(tokens)
          /\ refresh_outcome(t).code = 401

\* C1 witness: R1 was exchanged, its user holds other refresh tokens (the
\* replacement, a new login), and a refresh with R1 is answered 401.
C1_Witness ==
    \E t \in spent :
        /\ refresh_outcome(t).code = 401
        /\ t.exp > now
        /\ \E r \in tokens : r.type = "REFRESH" /\ r.user_id = t.user_id

\* C2: a successful refresh(R1) returns a refresh string R2 # R1, and the
\* store it leaves holds R2 as a REFRESH row of the user who owned R1.
C2_RefreshRotates ==
    \A t \in AnyToken :
        LET out == refresh_outcome(t)
        IN  out.code = 200 =>
              /\ out.refresh_token # t
              /\ out.refresh_token # None
              /\ Row("REFRESH", Owner(tokens, t), out.refresh_token) \in out.tokens

\* C2 witness: a state (after a login, a second later) in which the refresh
\* of a stored string succeeds.
C2_Witness ==
    \E t \in Strings(tokens) :
        /\ refresh_outcome(t).code = 200
        /\ t.exp = now + JWT_REFRESH_EXPIRATION_SECONDS - 1

\* C3: verification tokens are single-use. For a VERIFICATION token T in the
\* store, unexpired, of a REGISTERED user, verify(T) succeeds, and a second
\* verify(T) right after a successful one is answered 401 Unauthorized.
C3_VerifySingleUse ==
    [][ \A t \in Strings(tokens) :
            (Live(t) /\ t.token_type = "VERIFICATION"
               /\ users[t.user_id].status = "REGISTERED")
            => /\ verify_user_outcome(t).code = 200
               /\ verify_user(t) => (verify_user_outcome(t).code = 401)'
      ]_vars

\* C3 witness: a user was verified, and a verify with a still unexpired
\* verification string of that user is answered 401.
C3_Witness ==
    \E t \in Signed("VERIFICATION") :
        /\ t.user_id \in UserIds
        /\ t.user_id > 1
        /\ users[t.user_id].status = "VERIFIED"
        /\ t.exp > now
        /\ verify_user_outcome(t).code = 401

\* C4: verify(T) with a live VERIFICATION token T depends on the owner's
\* status. REGISTERED: it succeeds, the owner becomes VERIFIED, T leaves the
\* store and nothing else changes. VERIFIED or DELETED: 409 Conflict, and
\* neither the users nor the store change.
C4_VerifyByStatus ==
    \A t \in AnyToken :
        (Live(t) /\ t.token_type = "VERIFICATION" /\ t.user_id \in UserIds) =>
            LET out == verify_user_outcome(t)
                u == t.user_id
            IN  /\ users[u].status = "REGISTERED" =>
                      /\ out.code = 200
                      /\ out.users = [users EXCEPT ![u].status = "VERIFIED"]
                      /\ out.tokens = {r \in tokens : r.token # t}
                /\ users[u].status \in {"VERIFIED", "DELETED"} =>
                      /\ out.code = 409
                      /\ out.users = users
                      /\ out.tokens = tokens

\* C4 witness: the store holds a live verification token of a user who is
\* not REGISTERED, answered 409, next to one of a REGISTERED user, answered 200.
C4_Witness ==
    /\ \E t \in Strings(tokens) :
          /\ Live(t) /\ t.token_type = "VERIFICATION"
          /\ users[t.user_id].status \in {"VERIFIED", "DELETED"}
          /\ verify_user_outcome(t).code = 409
    /\ \E t \in Strings(tokens) :
          /\ Live(t) /\ t.token_type = "VERIFICATION"
          /\ users[t.user_id].status = "REGISTERED"
          /\ verify_user_outcome(t).code = 200

Used(email) == \E i \in UserIds : users[i].email = email

\* What signup does in a state, by whether the email is in use
SignupCases ==
    \A e \in Emails, p \in Passwords, s \in Salts :
        LET out == signup_outcome(e, p, s)
            id == Len(users) + 1
        IN  IF Used(e)
            THEN /\ out.code = 409
                 /\ out.users = users
                 /\ out.tokens = tokens
            ELSE /\ out.code = 200
                 /\ Len(out.users) = id
                 /\ SubSeq(out.users, 1, Len(users)) = users
                 /\ out.users[id].email = e
                 /\ out.users[id].status = "REGISTERED"
                 /\ tokens \subseteq out.tokens
                 /\ Cardinality(out.tokens \ tokens) = 1
                 /\ \A r \in out.tokens \ tokens :
                       r.type = "VERIFICATION" /\ r.user_id = id

\* C5: signup with an email nobody uses creates exactly one user, REGISTERED,
\* and exactly one VERIFICATION token, of that user; with an email in use it
\* is answered 409 Conflict and changes neither store; an email in use stays
\* in use, so every later signup with it is the second case.
C5_SignupOnce ==
    /\ []SignupCases
    /\ [][\A e \in Emails : Used(e) => Used(e)']_vars

\* C5 witness: new@x signed up (REGISTERED, one verification token) and a
\* further signup with it is answered 409.
C5_Witness ==
    \E i \in UserIds :
        /\ users[i].email = "new@x"
        /\ users[i].status = "REGISTERED"
        /\ Cardinality(get_tokens(tokens, i, "VERIFICATION")) = 1
        /\ \A p \in Passwords, s \in Salts : signup_outcome("new@x", p, s).code = 409

\* C6: every rejected login is 401 Unauthorized with the documented message:
\* 'Invalid email or password' when nobody has the email or the password does
\* not match, whatever the user's status; otherwise 'User needs to verify
\* their account' for REGISTERED and 'User account is deleted' for DELETED.
C6_LoginMessages ==
    \A e \in Emails, p \in Passwords :
        LET out == login_outcome(e, p)
            u == get_by_email_or_none(e)
        IN  out.code # 200 =>
              /\ out.code = 401
              /\ out.detail =
                   IF u = 0 \/ ~verify_secret(p, users[u].password)
                   THEN "Invalid email or password"
                   ELSE IF users[u].status = "REGISTERED"
                   THEN "User needs to verify their account"
                   ELSE "User account is deleted"

\* C7: login succeeds exactly when the user exists, is VERIFIED and the
\* password matches; a successful login returns an ACCESS and a REFRESH token
\* of that user, adds exactly that one REFRESH row and changes nothing else.
C7_LoginFrame ==
    \A e \in Emails, p \in Passwords :
        LET out == login_outcome(e, p)
            u == get_by_email_or_none(e)
        IN  /\ out.code = 200 <=>
                 (u # 0 /\ users[u].status = "VERIFIED"
                        /\ verify_secret(p, users[u].password))
            /\ out.code = 200 =>
                 /\ out.access_token.token_type = "ACCESS"
                 /\ out.access_token.user_id = u
                 /\ out.refresh_token.token_type = "REFRESH"
                 /\ out.refresh_token.user_id = u
                 /\ out.users = users
                 /\ tokens \subseteq out.tokens
                 /\ out.tokens \ tokens = {Row("REFRESH", u, out.refresh_token)}

\* C8: a string that verifies and is unexpired but carries another type than
\* the operation expects is answered 401: verify takes only VERIFICATION,
\* reset_password only RESET, refresh only REFRESH, the guard only ACCESS.
\* The rejection changes no user (nor the cache of users).
C8_TypeChecked ==
    \A t \in AnyToken :
        (t.sig /\ t.exp > now) =>
            LET verified == verify_user_outcome(t)
                refreshed == refresh_outcome(t)
                guarded == me_outcome("Bearer", t)
            IN  /\ t.token_type # "VERIFICATION" =>
                      verified.code = 401 /\ verified.users = users
                /\ t.token_type # "RESET" =>
                      \A p \in Passwords, s \in Salts :
                          LET reset == reset_password_outcome(t, p, s)
                          IN  reset.code = 401 /\ reset.users = users
                /\ t.token_type # "REFRESH" =>
                      refreshed.code = 401 /\ refreshed.users = users
                /\ t.token_type # "ACCESS" =>
                      /\ guarded.code = 401 /\ guarded.users = users
                      /\ authenticate_cache("Bearer", t) = cache

\* C8 witness: the store holds an unexpired REFRESH string, which verify,
\* reset_password and the guard answer 401, and an unexpired VERIFICATION
\* string, which refresh answers 401, while the guard has served a request.
C8_Witness ==
    /\ \E t \in Strings(tokens) :
          /\ Live(t) /\ t.token_type = "REFRESH"
          /\ verify_user_outcome(t).code = 401
          /\ me_outcome("Bearer", t).code = 401
          /\ \A p \in Passwords, s \in Salts : reset_password_outcome(t, p, s).code = 401
    /\ \E t \in Strings(tokens) :
          /\ Live(t) /\ t.token_type = "VERIFICATION"
          /\ refresh_outcome(t).code = 401
    /\ \E u \in DOMAIN cache : cache[u].hit

\* C9: from a store without tokens, every user owns at most one VERIFICATION
\* token and at most one RESET token in every reachable state.
C9_OnePerUser ==
    \A u \in UserIds :
        /\ Cardinality(get_tokens(tokens, u, "VERIFICATION")) <= 1
        /\ Cardinality(get_tokens(tokens, u, "RESET")) <= 1

\* C9 witness: after the first second, one user holds a VERIFICATION token
\* and another a RESET token, both issued in the current second, so a resend
\* or a repeated forgot_password put them there.
C9_Witness ==
    /\ now > 0
    /\ \E r \in tokens :
          r.type = "VERIFICATION" /\ r.token.exp = now + JWT_VERIFICATION_EXPIRATION_SECONDS
    /\ \E r \in tokens :
          r.type = "RESET" /\ r.token.exp = now + JWT_RESET_EXPIRATION_SECONDS

\* C10: after a successful resend_verification for a user, no VERIFICATION
\* string the user held before the call is in the store; the same for
\* forgot_password and the user's earlier RESET strings.
C10_OldTokensGone ==
    \A e \in Emails :
        LET resent == resend_verification_email_outcome(e)
            forgot == forgot_password_outcome(e)
            u == get_by_email_or_none(e)
        IN  /\ resent.code = 200 =>
                 \A r \in get_tokens(tokens, u, "VERIFICATION") :
                     r.token \notin Strings(resent.tokens)
            /\ (forgot.code = 200 /\ u # 0) =>
                 \A r \in get_tokens(tokens, u, "RESET") :
                     r.token \notin Strings(forgot.tokens)

\* C11: forgot_password answers every e-mail alike: whether nobody has the
\* e-mail or its user is REGISTERED, VERIFIED or DELETED, the status code and
\* the message of the response are the same.
C11_ForgotUniform ==
    \A e1 \in Emails \cup {"nobody@x"}, e2 \in Emails \cup {"nobody@x"} :
        /\ forgot_password_outcome(e1).code = forgot_password_outcome(e2).code
        /\ forgot_password_outcome(e1).detail = forgot_password_outcome(e2).detail

\* What reset_password does in a state, by the token it is given
ResetCases ==
    \A t \in AnyToken, p \in Passwords, s \in Salts :
        LET out == reset_password_outcome(t, p, s)
            u == t.user_id
        IN  IF Live(t) /\ t.token_type = "RESET"
            THEN /\ out.code = 200
                 /\ verify_secret(p, out.users[u].password)
                 /\ out.users = [users EXCEPT ![u].password = out.users[u].password]
                 /\ out.tokens = {r \in tokens : r.token # t}
            ELSE /\ out.code = 401
                 /\ out.users = users
                 /\ out.tokens = tokens

LogoutCases ==
    \A t \in AnyToken :
        LET out == logout_outcome(t)
        IN  IF t \in Strings(tokens) /\ t.token_type = "REFRESH"
            THEN /\ out.code = 204
                 /\ out.tokens = {r \in tokens : r.token # t}
                 /\ out.users = users
            ELSE /\ out.code = 401
                 /\ out.tokens = tokens
                 /\ out.users = users

\* C13: logout(R) with a REFRESH token R of the store removes R, and right
\* after it logout(R) and refresh(R) are both answered 401; logout with a
\* missing token or one that is not in the store is answered 401 and leaves
\* the store as it is.
C13_LogoutRevokes ==
    /\ []LogoutCases
    /\ [][ \A t \in Strings(tokens) :
              (logout_outcome(t).code = 204 /\ logout(t))
              => (logout_outcome(t).code = 401 /\ refresh_outcome(t).code = 401)'
         ]_vars

\* C13 witness: the store holds a refresh string that logout takes (204),
\* while another unexpired refresh string of the same user is gone from the
\* store and is answered 401 by logout and by refresh.
C13_Witness ==
    \E t \in Strings(tokens) :
        /\ logout_outcome(t).code = 204
        /\ \E t2 \in Signed("REFRESH") :
              /\ t2.user_id = t.user_id /\ t2.exp > now /\ t2.exp < t.exp
              /\ t2 \notin Strings(tokens)
              /\ logout_outcome(t2).code = 401
              /\ refresh_outcome(t2).code = 401

\* C14: the store never holds an ACCESS token: every row is a REFRESH,
\* VERIFICATION or RESET row holding a string of its own type, and the access
\* token which login and refresh return is not in the store they leave.
C14_AccessNeverStored ==
    /\ \A r \in tokens :
          /\ r.type \in {"REFRESH", "VERIFICATION", "RESET"}
          /\ r.token.token_type = r.type
    /\ \A e \in Emails, p \in Passwords :
          LET out == login_outcome(e, p)
          IN  out.code = 200 =>
                /\ out.access_token.token_type = "ACCESS"
                /\ out.access_token \notin Strings(out.tokens)
    /\ \A t \in AnyToken :
          LET out == refresh_outcome(t)
          IN  out.code = 200 =>
                /\ out.access_token.token_type = "ACCESS"
                /\ out.access_token \notin Strings(out.tokens)

\* C14 witness: a login or refresh of this second left its refresh row, next
\* to an older refresh row, and a further refresh is about to succeed.
C14_Witness ==
    /\ \E r \in tokens :
          r.type = "REFRESH" /\ r.token.exp = now + JWT_REFRESH_EXPIRATION_SECONDS
    /\ \E t \in Strings(tokens) : refresh_outcome(t).code = 200

\* A signed access string of an id no user has (yet)
Strangers ==
    {[user_id |-> Len(users) + 1, token_type |-> "ACCESS",
      exp |-> now + JWT_ACCESS_EXPIRATION_SECONDS, sig |-> TRUE]}

\* C15: the guard answers 401 when the header is absent, the scheme is not
\* Bearer or the token is empty, when the token does not decode (malformed,
\* tampered, expired), when its type is not ACCESS, or when no user has its
\* user id; when it accepts, the identity has the user id of the token.
C15_GuardRejects ==
    \A s \in Schemes \cup {""}, t \in AnyToken \cup Strangers :
        LET out == me_outcome(s, t)
        IN  /\ (\/ s # "Bearer"
                \/ t = None
                \/ ~t.sig
                \/ (t.exp # NoExp /\ t.exp <= now)
                \/ t.token_type # "ACCESS"
                \/ t.user_id \notin UserIds) => out.code = 401
            /\ out.code = 200 => out.user_id = t.user_id

\* C15 witness: the guard has accepted a user (a cached identity), accepts
\* an unexpired access string of that user with the user's id, and answers
\* 401 to an expired one.
C15_Witness ==
    \E u \in UserIds :
        /\ cache[u].hit
        /\ \E t \in Signed("ACCESS") :
              /\ t.user_id = u /\ t.exp > now
              /\ me_outcome("Bearer", t).code = 200
              /\ me_outcome("Bearer", t).user_id = u
        /\ \E t \in Signed("ACCESS") :
              /\ t.user_id = u /\ t.exp <= now
              /\ me_outcome("Bearer", t).code = 401

\* C16: the role guard returns the identity of the caller when the caller's
\* role is in the allow-list and answers 403 Forbidden otherwise, for every
\* allow-list; PUT /users/avatars changes an avatar, the caller's own, only
\* when the caller's role is ADMIN, and answers 403 without a change to any
\* other authenticated caller and 401 without a change to the rest.
C16_RoleGuard ==
    \A s \in Schemes, t \in Presentable("ACCESS") \cup {None} :
        LET id == authenticate(s, t)
        IN  /\ \A allowed \in SUBSET UserRole :
                  LET out == role_guard(allowed, s, t)
                  IN  /\ id = 0 => out.code = 401
                      /\ (id # 0 /\ users[id].role \in allowed) =>
                            out.code = 200 /\ out.user_id = id
                      /\ (id # 0 /\ users[id].role \notin allowed) =>
                            /\ out.code = 403
                            /\ out.detail = "Forbidden: insufficient permissions"
            /\ \A a \in Avatars :
                  LET out == change_avatar_outcome(s, t, a)
                  IN  /\ out.tokens = tokens
                      /\ id = 0 => out.code = 401 /\ out.users = users
                      /\ (id # 0 /\ users[id].role # "ADMIN") =>
                            out.code = 403 /\ out.users = users
                      /\ (id # 0 /\ users[id].role = "ADMIN") =>
                            /\ out.code = 200
                            /\ out.users = [users EXCEPT ![id].avatar_url = a]

\* C16 witness: the admin has changed the avatar, and a verified account of
\* role USER with an unexpired access string is refused with 403 by the
\* avatar route while a guard that allows USER lets it through.
C16_Witness ==
    /\ \E u \in UserIds : users[u].role = "ADMIN" /\ users[u].avatar_url \in Avatars
    /\ \E t \in Signed("ACCESS") :
          /\ t.exp > now
          /\ users[t.user_id].role = "USER" /\ users[t.user_id].status = "VERIFIED"
          /\ \A a \in Avatars : change_avatar_outcome("Bearer", t, a).code = 403
          /\ role_guard({"USER"}, "Bearer", t).code = 200

Expired(t) == t.sig /\ t.exp # NoExp /\ t.exp <= now
Unsigned(t) == t # None /\ ~t.sig

\* C17: for verify, reset_password, refresh and the guard, an expired
\* string and a forged or malformed one get the same response: 401 with the
\* same detail, the one a string that is no token at all gets.
C17_ExpiredLikeForged ==
    \A t \in {x \in AnyToken : Expired(x) \/ Unsigned(x)} :
        LET verified == verify_user_outcome(t)
            refreshed == refresh_outcome(t)
            guarded == me_outcome("Bearer", t)
        IN  /\ verified.code = 401
            /\ verified.detail = verify_user_outcome(Garbage).detail
            /\ refreshed.code = 401
            /\ refreshed.detail = refresh_outcome(Garbage).detail
            /\ guarded.code = 401
            /\ guarded.detail = me_outcome("Bearer", Garbage).detail
            /\ \A p \in Passwords, s \in Salts :
                  LET reset == reset_password_outcome(t, p, s)
                  IN  /\ reset.code = 401
                      /\ reset.detail = reset_password_outcome(Garbage, p, s).detail

\* C17 witness: the store holds an expired REFRESH string and an expired
\* VERIFICATION or RESET string, a tampered copy of a stored string can be
\* presented, and the guard has served a request.
C17_Witness ==
    /\ \E e \in Strings(tokens) : Expired(e) /\ e.token_type = "REFRESH"
    /\ \E e \in Strings(tokens) : Expired(e) /\ e.token_type \in {"VERIFICATION", "RESET"}
    /\ \E f \in AnyToken : Unsigned(f) /\ f # Garbage
    /\ \E u \in DOMAIN cache : cache[u].hit

OwnedBy(user) == {r \in contacts.rows : r.user_id = user}

\* C19: get_all for a user lists only rows of the table that this user owns,
\* for every search, every birthdays_within and every day; the listing is
\* the one the same request gets from a table holding this user's contacts
\* alone; and without filters it lists every contact of the user.
C19_ListingPerUser ==
    \A u \in UserIds :
        /\ \A search \in Searches \cup {NoSearch} :
              \A within \in Withins \cup {NoWithin} :
                  \A today \in (IF within = NoWithin THEN {1} ELSE Days) :
                      LET listed == get_all(u, search, within, today)
                      IN  /\ \A i \in DOMAIN listed :
                                listed[i].user_id = u /\ listed[i] \in contacts.rows
                          /\ listed = ContactsGetAll(OwnedBy(u), u, search, within, today)
        /\ LET listed == get_all(u, NoSearch, NoWithin, 1)
           IN  {listed[i] : i \in DOMAIN listed} = OwnedBy(u)

\* C19 witness: two users own contacts; a listing with both filters set
\* returns a contact of the caller while a contact of the other user matches
\* the same filters.
C19_Witness ==
    \E u \in UserIds, search \in Searches, within \in Withins, today \in Days :
        /\ get_all(u, search, within, today) # <<>>
        /\ \E r \in contacts.rows :
              /\ r.user_id # u
              /\ LikeSearch(r.first_name, search)
              /\ today <= r.birthday /\ r.birthday <= today + within

\* get_by_id, update_by_id and delete_by_id by a user on an id the user owns
\* no contact of: 404 'Contact not found', the table as it was; a successful
\* delete_by_id leaves the table without a row of that id.
NotFoundCases ==
    \A u \in UserIds, id \in ContactIds :
        /\ (\A r \in OwnedBy(u) : r.id # id) =>
              /\ get_by_id(u, id).code = 404
              /\ get_by_id(u, id).detail = "Contact not found"
              /\ delete_by_id_outcome(u, id).code = 404
              /\ delete_by_id_outcome(u, id).detail = "Contact not found"
              /\ delete_by_id_outcome(u, id).contacts = contacts
              /\ \A body \in ContactUpdates :
                    /\ update_by_id_outcome(u, body, id).code = 404
                    /\ update_by_id_outcome(u, body, id).detail = "Contact not found"
                    /\ update_by_id_outcome(u, body, id).contacts = contacts
        /\ delete_by_id_outcome(u, id).code = 204 =>
              /\ \A r \in delete_by_id_outcome(u, id).contacts.rows : r.id # id
              /\ \E r \in OwnedBy(u) :
                    /\ r.id = id
                    /\ delete_by_id_outcome(u, id).contacts.rows = contacts.rows \ {r}

\* An id that was given and whose row is gone
Deleted(id) == id <= contacts.last_id /\ \A r \in contacts.rows : r.id # id

Sessions(store) == {r \in store : r.type = "REFRESH"}
Sessionless == {i \in UserIds : users[i].status # "VERIFIED"}

C21_SessionsAreVerified ==
    /\ \A r \in Sessions(tokens) :
          r.user_id \in UserIds /\ users[r.user_id].status = "VERIFIED"
    /\ \A e \in Emails, p \in Passwords :
          LET out == login_outcome(e, p)
          IN  \/ /\ out.code = 200
                 /\ out.user_id \notin Sessionless
                 /\ Owner(out.tokens, out.refresh_token) \notin Sessionless
              \/ /\ out.code # 200
                 /\ out.access_token = None /\ out.refresh_token = None
                 /\ out.tokens = tokens
    /\ \A t \in Held("REFRESH") \cup {None} :
          LET out == refresh_outcome(t)
          IN  \/ /\ out.code = 200
                 /\ out.user_id \notin Sessionless
                 /\ Owner(out.tokens, out.refresh_token) \notin Sessionless
              \/ /\ out.code # 200
                 /\ out.access_token = None /\ out.refresh_token = None
                 /\ Sessions(out.tokens) \subseteq tokens
    /\ \A t \in Held("VERIFICATION") :
          LET out == verify_user_outcome(t)
          IN  out.access_token = None /\ out.refresh_token = None
              /\ Sessions(out.tokens) \subseteq tokens
    /\ \A e \in Emails :
          /\ resend_verification_email_outcome(e).access_token = None
          /\ resend_verification_email_outcome(e).refresh_token = None
          /\ forgot_password_outcome(e).access_token = None
          /\ forgot_password_outcome(e).refresh_token = None
    /\ \A t \in Held("RESET"), p \in Passwords, s \in Salts :
          LET out == reset_password_outcome(t, p, s)
          IN  out.access_token = None /\ out.refresh_token = None
              /\ Sessions(out.tokens) \subseteq tokens

\* A signed-up account that is still REGISTERED presents its own password
\* and is refused, next to a VERIFIED account that holds a session.
C21_Witness ==
    /\ \E i \in UserIds :
          /\ users[i].status = "REGISTERED"
          /\ \E p \in Passwords :
                /\ verify_secret(p, users[i].password)
                /\ login_outcome(users[i].email, p).code = 401
    /\ \E r \in Sessions(tokens) :
          users[r.user_id].status = "VERIFIED"

\* ------------------------------------------------------------------- C22
\* C22: the status of a user changes only from REGISTERED to VERIFIED, and
\* only in the step of a successful verify of a token of that user; a row
\* that signup adds is REGISTERED; no row is removed, and a VERIFIED or a
\* DELETED user keeps its status in every step.
C22_StatusSteps ==
    [][/\ Len(users') >= Len(users)
       /\ \A i \in DOMAIN users' \ UserIds : users'[i].status = "REGISTERED"
       /\ \A i \in UserIds :
             users'[i].status # users[i].status =>
                /\ users[i].status = "REGISTERED"
                /\ users'[i].status = "VERIFIED"
                /\ \E t \in Strings(tokens) :
                      /\ verify_user_outcome(t).code = 200
                      /\ verify_user_outcome(t).user_id = i
                      /\ users' = verify_user_outcome(t).users
                      /\ tokens' = verify_user_outcome(t).tokens]_vars

\* A user that signup created REGISTERED has become VERIFIED, next to a
\* seeded DELETED user whose verification token was turned down.
C22_Witness ==
    /\ \E i \in UserIds : i > 1 /\ users[i].status = "VERIFIED"
    /\ users[1].status = "DELETED"
    /\ \E t \in Strings(tokens) :
          /\ t.token_type = "VERIFICATION" /\ t.user_id = 1
          /\ verify_user_outcome(t).code = 409

\* ------------------------------------------------------------------- C23
\* C23: token creation never collides. Whenever login, refresh, signup,
\* resend_verification or forgot_password reaches create_token, the string
\* it signs is not in the store, so no request ends in the IntegrityError
\* of the unique constraint.
C23_NeverCollides ==
    /\ \A e \in Emails, p \in Passwords :
          LET user == get_by_email_or_none(e)
          IN  (user # 0 /\ users[user].status = "VERIFIED"
                 /\ verify_secret(p, users[user].password))
              => /\ ~Collides(tokens, create_token("REFRESH", user).token)
                 /\ login_outcome(e, p).code = 200
    /\ \A t \in Strings(tokens) :
          (t.token_type = "REFRESH" /\ Live(t))
              => /\ ~Collides(tokens, create_token("REFRESH", t.user_id).token)
                 /\ refresh_outcome(t).code = 200
    /\ \A e \in Emails, p \in Passwords, s \in Salts :
          signup_outcome(e, p, s).code # 500
    /\ \A e \in Emails :
          /\ resend_verification_email_outcome(e).code # 500
          /\ forgot_password_outcome(e).code # 500

\* ------------------------------------------------------------------- C24
\* C24: an operation of the Auth Service that ends in an error leaves the
\* User Store and the Token Store as they were before it started.
Untouched(out) == out.code >= 400 => (out.users = users /\ out.tokens = tokens)

C24_FailuresChangeNothing ==
    /\ \A e \in Emails, p \in Passwords, s \in Salts : Untouched(signup_outcome(e, p, s))
    /\ \A e \in Emails, p \in Passwords : Untouched(login_outcome(e, p))
    /\ \A t \in Held("REFRESH") \cup {None} :
          Untouched(refresh_outcome(t)) /\ Untouched(logout_outcome(t))
    /\ \A t \in Held("VERIFICATION") : Untouched(verify_user_outcome(t))
    /\ \A e \in Emails :
          /\ Untouched(resend_verification_email_outcome(e))
          /\ Untouched(forgot_password_outcome(e))
    /\ \A t \in Held("RESET"), p \in Passwords, s \in Salts :
          Untouched(reset_password_outcome(t, p, s))

\* ------------------------------------------------------------------- C25
\* C25: rotation order in refresh. The new REFRESH row is committed before
\* the presented one is deleted: while a refresh request stands before its
\* delete_token, its new string is in the store; the step that commits the
\* new row removes nothing; and a crash leaves the store as it is, so the
\* presented and the new string both stay.
Rotating(f) ==
    /\ flights[f].op = "refresh"
    /\ flights[f].pc \in {"get_token_or_fail", "delete"}

C25_NewBeforeOld ==
    /\ [](\A f \in Flights : Rotating(f) => InStore(tokens, flights[f].new))
    /\ [][/\ \A f \in Flights :
               (At(f, "refresh", "create_token") /\ flights'[f] # flights[f])
                   => tokens \subseteq tokens'
          /\ \A f \in Flights :
               (At(f, "refresh", "delete") /\ flights'[f] # flights[f]
                  /\ flights'[f].op = "refresh")
                   => tokens' = delete_token(tokens, flights[f].token)
          /\ (flights' = [f \in Flights |-> Idle] /\ flights' # flights)
                   => tokens' = tokens]_vars

\* The state between the two commits: the presented and the new string are
\* both stored, live REFRESH strings of one user, and the server can die here.
C25_Witness ==
    \E f \in Flights :
        /\ Rotating(f)
        /\ flights[f].token # flights[f].new
        /\ \A t \in {flights[f].token, flights[f].new} :
              /\ Live(t)
              /\ get_tokens_by_string(tokens, t, "REFRESH") # {}
        /\ ENABLED crash

\* ------------------------------------------------------------------- C26
\* C26: the cache protocol of the guard. For a Bearer request with a valid
\* ACCESS string of user u: if the cache holds a key for u, the guard returns
\* that snapshot, whatever the User Store says, and leaves the cache as it
\* is; if it holds none and u has no row, the guard raises 401 and leaves
\* the cache as it is; if it holds none and u has a row, the guard returns
\* the identity built from the row and sets the key for u to it, to expire
\* CACHE_EX (the scaled 3600 seconds) from now.
ValidAccess ==
    {t \in [user_id : DOMAIN cache, token_type : {"ACCESS"}, exp : 0..(MaxTime + JWT_ACCESS_EXPIRATION_SECONDS),
            sig : {TRUE}] : decode_jwt(t) # NoPayload}

Cached(u) == cache[u].hit /\ cache[u].exp > now

C26_CacheProtocol ==
    \A t \in ValidAccess :
        LET u == t.user_id
        IN  /\ Cached(u) =>
                /\ authenticate("Bearer", t) = cache[u].user.id
                /\ authenticate_user("Bearer", t) = cache[u].user
                /\ authenticate_cache("Bearer", t) = cache
            /\ (~Cached(u) /\ u \notin UserIds) =>
                /\ authenticate("Bearer", t) = 0
                /\ me_outcome("Bearer", t).code = 401
                /\ authenticate_cache("Bearer", t) = cache
            /\ (~Cached(u) /\ u \in UserIds) =>
                /\ authenticate("Bearer", t) = u
                /\ authenticate_user("Bearer", t) = Snapshot(u)
                /\ authenticate_cache("Bearer", t) =
                      [cache EXCEPT ![u] = [hit |-> TRUE, exp |-> now + CACHE_EX,
                                            user |-> Snapshot(u)]]

\* A valid string of a user whose key is in the cache with a snapshot that
\* the row has left behind (the avatar changed since), next to a valid
\* string of an id that has no row and no key.
C26_Witness ==
    /\ \E t \in ValidAccess :
          /\ Cached(t.user_id)
          /\ t.user_id \in UserIds
          /\ cache[t.user_id].user # Snapshot(t.user_id)
    /\ \E t \in ValidAccess : ~Cached(t.user_id) /\ t.user_id \notin UserIds

\* ------------------------------------------------------------------- C27
\* C27 as stated: every request's session is closed when the request ends,
\* and a request that failed had its session rolled back before the close.
Finished(f) == flights[f].op # "idle" /\ flights[f].pc = "done"

Mailers == {"signup", "resend_verification_email", "forgot_password"}

C28_MailDecoupled ==
    /\ [](\A f \in Flights :
            flights[f].delivery # "none" =>
               flights[f].op \in Mailers /\ flights[f].code = 200)
    /\ [][\A f \in Flights :
            /\ (flights[f].delivery = "none" /\ flights'[f].delivery = "queued") =>
                  /\ flights'[f].mail = flights[f].new
                  /\ InStore(tokens, flights'[f].mail)
                  /\ tokens' = tokens /\ users' = users
                  /\ flights'[f].code = 200
            /\ (flights[f].delivery = "queued" /\ flights'[f].delivery # "queued") =>
                  /\ flights'[f].delivery \in {"sent", "failed"}
                  /\ tokens' = tokens /\ users' = users
                  /\ flights'[f].code = flights[f].code]_vars

\* A signup that answered 200 and whose mail could not be delivered: the
\* account and its verification token are there all the same.
C28_Witness ==
    \E f \in Flights :
        /\ Finished(f) /\ flights[f].op = "signup"
        /\ flights[f].delivery = "failed" /\ flights[f].code = 200
        /\ get_by_email_or_none(flights[f].email) # 0
        /\ get_tokens(tokens, get_by_email_or_none(flights[f].email), "VERIFICATION") # {}

\* ------------------------------------------------------------------- C29
\* C29: two signup requests for one email that interleave between their
\* store operations. When both have ended, one of them answered 200 or the
\* email was taken before, every other one answered 409 Conflict, and no two
\* users share an email.
C29_OneSignupOneConflict ==
    /\ \A i \in UserIds, j \in UserIds : users[i].email = users[j].email => i = j
    /\ \A f \in Flights, g \in Flights :
          (/\ f # g
           /\ Finished(f) /\ flights[f].op = "signup"
           /\ Finished(g) /\ flights[g].op = "signup"
           /\ flights[f].email = flights[g].email)
          => /\ {flights[f].code, flights[g].code} \subseteq {200, 409}
             /\ 409 \in {flights[f].code, flights[g].code}

\* ------------------------------------------------------------------- C30
\* C30: two resend_verification requests, or two forgot_password requests,
\* for one user that interleave between their store operations. Once both
\* have ended, the user owns at most one VERIFICATION (for forgot_password:
\* RESET) token.
Reissued(op) == IF op = "forgot_password" THEN "RESET" ELSE "VERIFICATION"

C30_OneTokenAfterBoth ==
    \A f \in Flights, g \in Flights :
        (/\ f # g
         /\ Finished(f) /\ Finished(g)
         /\ flights[f].op \in {"resend_verification_email", "forgot_password"}
         /\ flights[g].op = flights[f].op
         /\ flights[g].email = flights[f].email
         /\ get_by_email_or_none(flights[f].email) # 0)
        => Cardinality(get_tokens(tokens, get_by_email_or_none(flights[f].email),
                                  Reissued(flights[f].op))) <= 1

\* ---- C31
\* Two refresh requests that present the same live token R1 and interleave:
\* at most one of them answers with a new pair, and once both are over at
\* most one REFRESH string issued in exchange for R1 is in the store.
\* (Stated as the claim states it; the code does not keep it: both requests
\* read R1 before either deletes it, and each commits its own new row.)
SameToken ==
    /\ \A f \in Flights : Finished(f) /\ flights[f].op = "refresh"
    /\ flights["a"].token = flights["b"].token
    /\ flights["a"].token # None
    /\ decode_jwt_no_expiry(flights["a"].token).token_type = "REFRESH"

C31_OneRotationPerToken ==
    SameToken =>
        /\ Cardinality({f \in Flights : flights[f].code = 200}) <= 1
        /\ Cardinality({flights[f].new : f \in Flights} \cap Strings(Sessions(tokens))) <= 1

\* ---- C32
\* Two verify requests that present the same live VERIFICATION token T and
\* interleave: exactly one answers success, the other fails with 401 or 409
\* (never 404, never 500), and afterwards the user is VERIFIED and T is gone.
\* (Stated as the claim states it; the code does not keep it: both requests
\* can pass the status check before either commits, and the delete_token of
\* the slower one meets a string that is gone.)
SameVerification ==
    /\ \A f \in Flights : Finished(f) /\ flights[f].op = "verify_user"
    /\ flights["a"].token = flights["b"].token
    /\ decode_jwt_no_expiry(flights["a"].token).token_type = "VERIFICATION"
    /\ \E f \in Flights : flights[f].code = 200

C32_OneVerificationPerToken ==
    SameVerification =>
        /\ Cardinality({f \in Flights : flights[f].code = 200}) = 1
        /\ \A f \in Flights : flights[f].code \in {200, 401, 409}
        /\ users[decode_jwt_no_expiry(flights["a"].token).user_id].status = "VERIFIED"
        /\ ~InStore(tokens, flights["a"].token)

\* ---- C33
\* The cache client a request obtained from RedisSessionManager.session stays
\* open, and stays the manager's client, until that request leaves its scope.
\* (Stated as the claim states it; the code does not keep it: the manager
\* hands its one client to every request and each request's exit closes it.)
InScope(f) == flights[f].op = "me" /\ flights[f].pc = "authenticate"

C33_ClientOpenInScope ==
    \A f \in Flights :
        InScope(f) =>
            /\ flights[f].redis \in redis_manager.open
            /\ redis_manager._redis = flights[f].redis

\* ---- C34
\* Cache coherence: whenever the cache holds an entry for a user, its fields
\* equal those of the user's row, so that what the guard hands to a request
\* (GET /auth/me answers with it) is the row as it is now, the avatar_url of
\* the last successful change included.
\* (Stated as the claim states it; the code does not keep it: nothing deletes
\* or rewrites the key when the row changes.)
C34_CacheCoherent ==
    /\ \A u \in UserIds : Cached(u) => cache[u].user = Snapshot(u)
    /\ \A t \in ValidAccess :
          authenticate("Bearer", t) # 0 =>
              authenticate_user("Bearer", t) = Snapshot(t.user_id)

\* ---- C35
\* A logout authenticated by the ACCESS token of user A that presents a
\* REFRESH token owned by another user B fails with Unauthorized and leaves
\* B's token in the store.
\* (Stated as the claim states it; the code does not keep it: the handler
\* never compares the token's owner with the authenticated user.)
C35_LogoutOwnTokenOnly ==
    \A t \in ValidAccess, r \in Sessions(tokens) :
        (/\ authenticate("Bearer", t) # 0
         /\ users[t.user_id].status = "VERIFIED"
         /\ r.user_id # authenticate("Bearer", t)) =>
            /\ logout_route_outcome("Bearer", t, r.token).code = 401
            /\ r \in logout_route_outcome("Bearer", t, r.token).tokens

\* ---- C36
\* For every row of the Token Store, the row's type and user id are the
\* token_type and user_id in the payload of the row's signed string.
C36_RowMatchesPayload ==
    \A r \in tokens :
        /\ r.token.sig
        /\ decode_jwt_no_expiry(r.token).token_type = r.type
        /\ decode_jwt_no_expiry(r.token).user_id = r.user_id

\* Rows of all three stored types, of more than one user, are in the store
C36_Witness ==
    /\ \A ty \in {"REFRESH", "VERIFICATION", "RESET"} : \E r \in tokens : r.type = ty
    /\ \E r, q \in tokens : r.user_id # q.user_id

\* ---- C37
\* A successful reset_password changes only the password hash of the token's
\* user and removes only the consumed RESET row: every other field of that
\* user, every other user and every other token row stay as they were, and
\* the user's REFRESH strings are answered by refresh after the reset as
\* they were before it.
ResetInputs == Held("RESET") \X Passwords \X Salts

ResetDone(i) ==
    LET out == reset_password_outcome(i[1], i[2], i[3])
    IN  /\ out.code = 200
        /\ users' = out.users
        /\ tokens' = out.tokens
        /\ tokens' # tokens

C37_ResetFrame ==
    /\ [](\A i \in ResetInputs :
            LET out == reset_password_outcome(i[1], i[2], i[3])
                u == out.user_id
            IN  out.code = 200 =>
                  /\ out.users = [users EXCEPT ![u].password = hash_secret(i[2], i[3])]
                  /\ \A v \in UserIds \ {u} : out.users[v] = users[v]
                  /\ tokens \ out.tokens = get_tokens_by_string(tokens, i[1], "RESET")
                  /\ out.tokens \subseteq tokens
                  /\ get_tokens(out.tokens, u, "REFRESH") = get_tokens(tokens, u, "REFRESH"))
    /\ [][\A i \in ResetInputs :
            ResetDone(i) =>
                \A r \in Sessions(tokens) :
                    /\ r \in tokens'
                    /\ refresh_outcome(r.token)'.code = refresh_outcome(r.token).code]_vars

\* After a reset: the seeded user's password is no longer the seeded one, and
\* a REFRESH string of that user is stored and passes refresh
C37_Witness ==
    /\ users[1].password # hash_secret("12345678", "salt")
    /\ \E r \in get_tokens(tokens, 1, "REFRESH") : refresh_outcome(r.token).code = 200

\* ---- C38
\* A failed refresh changes the Token Store in exactly one case: a presented
\* string that is stored but does not decode, or whose payload is not valid,
\* has its row deleted before the 401; a string that is not stored, or is
\* stored with a payload of another type, leaves the store as it is.
\* One request at a time, this is what refresh does:
Undecodable(t) == decode_jwt(t) = NoPayload \/ ~PayloadValid(decode_jwt(t))

FailedRefreshCases ==
    \A t \in Held("REFRESH") \cup {None} :
        LET out == refresh_outcome(t)
        IN  out.code # 200 =>
              IF t # None /\ InStore(tokens, t) /\ Undecodable(t)
              THEN out.code = 401 /\ out.tokens = delete_token(tokens, t)
                   /\ out.tokens # tokens
              ELSE /\ out.tokens = tokens
                   /\ (t = None \/ ~InStore(tokens, t)
                         \/ decode_jwt(t).token_type # "REFRESH") => out.code = 401

\* The claim for requests as the server runs them, several at a time: a
\* refresh that has failed has inserted nothing, and the step on which a
\* refresh fails changes the store only by that one delete.
\* (The code does not keep it: a refresh whose presented row another request
\* deleted fails after it has committed its new row.)
C38_FailedRefreshChanges ==
    /\ [](\A f \in Flights :
            (Finished(f) /\ flights[f].op = "refresh" /\ flights[f].code >= 400)
                => flights[f].new = None)
    /\ [][\A f \in Flights :
            (/\ flights[f].op = "refresh" /\ flights[f].raised = "none"
             /\ flights'[f].op = "refresh" /\ flights'[f].raised # "none")
                => IF At(f, "refresh", "drop_delete")
                   THEN tokens' = delete_token(tokens, flights[f].token)
                        /\ flights'[f].code = 401
                   ELSE tokens' = tokens]_vars

====
